---- MODULE Spec2Model ----
(***************************************************************************)
(* A model of the qrgen terminal wizard (internal/ui), its configuration   *)
(* (internal/config), the template sub-form and the file picker.           *)
(*                                                                         *)
(* Strings are sequences of one-character strings.  A key message is a     *)
(* record [s, runes]: s is what tea.KeyMsg.String() returns for it and     *)
(* runes is the text it carries (one rune for a typed character, several   *)
(* for a pasted run, none for a named key such as enter or esc).           *)
(* Handlers are operators from a Model record (plus the key and the        *)
(* outcome of the calls the handler makes into its collaborators) to the   *)
(* returned Model record and the list of collaborator calls it made.       *)
(***************************************************************************)
EXTENDS Integers, Sequences, FiniteSets, TLC

VARIABLES m, fx, app

\* m is the Model the program holds, fx the calls the last key message made
\* into the collaborators, and app one application of a function of the
\* program on its own: its arguments and what it has returned so far.

vars == <<m, fx, app>>

(***************************************************************************)
(* strings, strconv, path/filepath                                         *)
(***************************************************************************)

RECURSIVE TrimLeft(_)
TrimLeft(s) ==
    IF s # <<>> /\ Head(s) = " " THEN TrimLeft(Tail(s)) ELSE s

RECURSIVE TrimRight(_)
TrimRight(s) ==
    IF s # <<>> /\ s[Len(s)] = " " THEN TrimRight(SubSeq(s, 1, Len(s) - 1)) ELSE s

TrimSpace(s) == TrimRight(TrimLeft(s))

HasPrefix(s, p) == Len(s) >= Len(p) /\ SubSeq(s, 1, Len(p)) = p

HasSuffix(s, p) == Len(s) >= Len(p) /\ SubSeq(s, Len(s) - Len(p) + 1, Len(s)) = p

TrimPrefix(s, p) == IF HasPrefix(s, p) THEN SubSeq(s, Len(p) + 1, Len(s)) ELSE s

TrimSuffix(s, p) == IF HasSuffix(s, p) THEN SubSeq(s, 1, Len(s) - Len(p)) ELSE s

DigitVal ==
    [c \in {"0", "1", "2", "3", "4", "5", "6", "7", "8", "9"} |->
        CASE c = "0" -> 0 [] c = "1" -> 1 [] c = "2" -> 2 [] c = "3" -> 3
          [] c = "4" -> 4 [] c = "5" -> 5 [] c = "6" -> 6 [] c = "7" -> 7
          [] c = "8" -> 8 [] c = "9" -> 9]

RECURSIVE DecimalValue(_, _)
DecimalValue(s, acc) ==
    IF s = <<>> THEN acc ELSE DecimalValue(Tail(s), acc * 10 + DigitVal[Head(s)])

\* strconv.Atoi: an optional sign, then one or more decimal digits.
Atoi(s) ==
    LET signed == s # <<>> /\ Head(s) \in {"+", "-"}
        digits == IF signed THEN Tail(s) ELSE s
        ok     == digits # <<>> /\ \A i \in 1..Len(digits) : digits[i] \in DOMAIN DigitVal
        v      == IF ok THEN DecimalValue(digits, 0) ELSE 0
    IN  [ok |-> ok, n |-> IF signed /\ Head(s) = "-" THEN 0 - v ELSE v]

HexVal ==
    [c \in {"0", "1", "2", "3", "4", "5", "6", "7", "8", "9",
            "a", "b", "c", "d", "e", "f", "A", "B", "C", "D", "E", "F"} |->
        CASE c \in DOMAIN DigitVal -> DigitVal[c]
          [] c \in {"a", "A"} -> 10 [] c \in {"b", "B"} -> 11
          [] c \in {"c", "C"} -> 12 [] c \in {"d", "D"} -> 13
          [] c \in {"e", "E"} -> 14 [] c \in {"f", "F"} -> 15]

\* strconv.ParseUint(s, 16, 8) on a two-character slice.
ParseHexByte(s) ==
    LET ok == \A i \in 1..Len(s) : s[i] \in DOMAIN HexVal
    IN  [ok |-> ok, n |-> IF ok THEN HexVal[s[1]] * 16 + HexVal[s[2]] ELSE 0]

\* The index of the last "/" of p, 0 if there is none.
LastSlash(p) ==
    LET S == {i \in 1..Len(p) : p[i] = "/"}
    IN  IF S = {} THEN 0 ELSE CHOOSE i \in S : \A j \in S : j <= i

\* filepath.Ext: the suffix beginning at the final dot of the final element.
Ext(p) ==
    LET D == {i \in (LastSlash(p) + 1)..Len(p) : p[i] = "."}
    IN  IF D = {} THEN <<>>
        ELSE SubSeq(p, CHOOSE i \in D : \A j \in D : j <= i, Len(p))

\* The elements of p between its slashes (empty ones included).
RECURSIVE SplitPath(_, _, _)
SplitPath(p, cur, acc) ==
    IF p = <<>> THEN Append(acc, cur)
    ELSE IF Head(p) = "/" THEN SplitPath(Tail(p), <<>>, Append(acc, cur))
    ELSE SplitPath(Tail(p), Append(cur, Head(p)), acc)

RECURSIVE CleanElems(_, _, _)
CleanElems(elems, rooted, out) ==
    IF elems = <<>> THEN out
    ELSE LET e == Head(elems) IN
         IF e = <<>> \/ e = <<".">> THEN CleanElems(Tail(elems), rooted, out)
         ELSE IF e = <<".", ".">> THEN
              IF out # <<>> /\ out[Len(out)] # <<".", ".">>
              THEN CleanElems(Tail(elems), rooted, SubSeq(out, 1, Len(out) - 1))
              ELSE IF rooted THEN CleanElems(Tail(elems), rooted, out)
              ELSE CleanElems(Tail(elems), rooted, Append(out, e))
         ELSE CleanElems(Tail(elems), rooted, Append(out, e))

RECURSIVE JoinElems(_)
JoinElems(elems) ==
    IF elems = <<>> THEN <<>>
    ELSE IF Len(elems) = 1 THEN Head(elems)
    ELSE Head(elems) \o <<"/">> \o JoinElems(Tail(elems))

\* filepath.Clean (Unix).
Clean(p) ==
    IF p = <<>> THEN <<".">>
    ELSE LET rooted == Head(p) = "/"
             body   == JoinElems(CleanElems(SplitPath(p, <<>>, <<>>), rooted, <<>>))
         IN  IF rooted THEN <<"/">> \o body
             ELSE IF body = <<>> THEN <<".">> ELSE body

\* filepath.Join of two elements: empty elements are ignored, the rest cleaned.
Join(a, b) ==
    IF a = <<>> /\ b = <<>> THEN <<>>
    ELSE IF a = <<>> THEN Clean(b)
    ELSE IF b = <<>> THEN Clean(a)
    ELSE Clean(a \o <<"/">> \o b)

\* A variant of IsAbs that takes every path for an absolute one.
IsAbsAlways(p) == TRUE

IsAbs(p) == p # <<>> /\ Head(p) = "/"

\* filepath.Dir: all but the last element of p, cleaned.
Dir(p) == Clean(SubSeq(p, 1, LastSlash(p)))

(***************************************************************************)
(* internal/config                                                         *)
(***************************************************************************)

FormatPNG == <<"p", "n", "g">>

FormatSVG == <<"s", "v", "g">>

RGBA(r, g, b) == [R |-> r, G |-> g, B |-> b, A |-> 255]

NoError == <<>>

Errorf(msg, arg) == <<msg, arg>>

DefaultConfig ==
    [Content    |-> <<>>,
     Format     |-> FormatPNG,
     Size       |-> 256,
     Foreground |-> RGBA(0, 0, 0),
     Background |-> RGBA(255, 255, 255),
     OutputPath |-> <<"q", "r", "c", "o", "d", "e", ".", "p", "n", "g">>]

\* QRConfig.Validate: the error it returns, NoError for a valid configuration.
Validate(c) ==
    IF c.Content = <<>> THEN Errorf("content cannot be empty", <<>>)
    ELSE IF c.Size < 64 \/ c.Size > 4096
         THEN Errorf("size must be between 64 and 4096 pixels", <<>>)
    ELSE IF c.Format # FormatPNG /\ c.Format # FormatSVG
         THEN Errorf("format must be 'png' or 'svg'", <<>>)
    ELSE IF c.OutputPath = <<>> THEN Errorf("output path cannot be empty", <<>>)
    ELSE NoError

\* A variant of SetOutputPath that appends the extension to whatever it gets.
SetOutputPathAppends(c, path) ==
    [c EXCEPT !.OutputPath = path \o <<".">> \o c.Format]

\* A variant of SetOutputPath that keeps a path that has an extension.
SetOutputPathKeepsExtension(c, path) ==
    [c EXCEPT !.OutputPath = IF Ext(path) = <<>> THEN path \o <<".">> \o c.Format ELSE path]

\* QRConfig.SetOutputPath: the configuration with the extension enforced.
SetOutputPath(c, path) ==
    LET ext == Ext(path)
    IN  [c EXCEPT !.OutputPath =
            IF ext = <<>> THEN path \o <<".">> \o c.Format
            ELSE TrimSuffix(path, ext) \o <<".">> \o c.Format]

\* A variant of ParseHexColor that strips a second leading "#" as well.
ParseHexColorStripsTwo(hex0) ==
    LET hex == TrimPrefix(TrimPrefix(hex0, <<"#">>), <<"#">>)
    IN  IF Len(hex) # 6 THEN [ok |-> FALSE, color |-> RGBA(0, 0, 0)]
        ELSE LET r == ParseHexByte(SubSeq(hex, 1, 2))
                 g == ParseHexByte(SubSeq(hex, 3, 4))
                 b == ParseHexByte(SubSeq(hex, 5, 6))
             IN  IF r.ok /\ g.ok /\ b.ok
                 THEN [ok |-> TRUE, color |-> RGBA(r.n, g.n, b.n)]
                 ELSE [ok |-> FALSE, color |-> RGBA(0, 0, 0)]

\* ParseHexColor: [ok, color].
ParseHexColor(hex0) ==
    LET hex == TrimPrefix(hex0, <<"#">>)
    IN  IF Len(hex) # 6 THEN [ok |-> FALSE, color |-> RGBA(0, 0, 0)]
        ELSE LET r == ParseHexByte(SubSeq(hex, 1, 2))
                 g == ParseHexByte(SubSeq(hex, 3, 4))
                 b == ParseHexByte(SubSeq(hex, 5, 6))
             IN  IF r.ok /\ g.ok /\ b.ok
                 THEN [ok |-> TRUE, color |-> RGBA(r.n, g.n, b.n)]
                 ELSE [ok |-> FALSE, color |-> RGBA(0, 0, 0)]

HexDigits ==
    <<"0", "1", "2", "3", "4", "5", "6", "7", "8", "9", "A", "B", "C", "D", "E", "F">>

\* ColorToHex: "#%02X%02X%02X".
ColorToHex(c) ==
    LET byte(n) == <<HexDigits[(n \div 16) + 1], HexDigits[(n % 16) + 1]>>
    IN  <<"#">> \o byte(c.R) \o byte(c.G) \o byte(c.B)

\* GetPredefinedColorNames, in its order.
colorNames ==
    <<"Black", "White", "Red", "Green", "Blue", "Purple",
      "Orange", "Cyan", "Pink", "Yellow", "Teal", "Indigo">>

PredefinedColors ==
    [n \in {colorNames[i] : i \in 1..Len(colorNames)} |->
        CASE n = "Black"  -> RGBA(0, 0, 0)
          [] n = "White"  -> RGBA(255, 255, 255)
          [] n = "Red"    -> RGBA(220, 53, 69)
          [] n = "Green"  -> RGBA(40, 167, 69)
          [] n = "Blue"   -> RGBA(0, 123, 255)
          [] n = "Purple" -> RGBA(111, 66, 193)
          [] n = "Orange" -> RGBA(253, 126, 20)
          [] n = "Cyan"   -> RGBA(23, 162, 184)
          [] n = "Pink"   -> RGBA(232, 62, 140)
          [] n = "Yellow" -> RGBA(255, 193, 7)
          [] n = "Teal"   -> RGBA(32, 201, 151)
          [] n = "Indigo" -> RGBA(102, 16, 242)]

(***************************************************************************)
(* internal/templates                                                      *)
(***************************************************************************)

ContentURL == 0

ContentWiFi == 1

ContentVCard == 2

ContentEmail == 3

ContentSMS == 4

ContentText == 5

\* AvailableTypes, in display order (the Type of each entry).
contentTypes == <<ContentURL, ContentWiFi, ContentVCard, ContentEmail, ContentSMS, ContentText>>

WiFiWPA == <<"W", "P", "A">>

WiFiWEP == <<"W", "E", "P">>

WiFiNone == <<"n", "o", "p", "a", "s", "s">>

\* WiFiEncryptionTypes, in its order (the Type of each entry).
WiFiEncryptionTypes == <<WiFiWPA, WiFiWEP, WiFiNone>>

\* strings.ReplaceAll(s, old, new) for a one-character old.
RECURSIVE ReplaceAll(_, _, _)
ReplaceAll(s, old, new) ==
    IF s = <<>> THEN <<>>
    ELSE (IF Head(s) = old THEN new ELSE <<Head(s)>>) \o ReplaceAll(Tail(s), old, new)

\* A variant of escapeWiFiField that escapes the backslash last.
escapeWiFiFieldBackslashLast(s) ==
    LET s1 == ReplaceAll(s, ";", <<"\\", ";">>)
        s2 == ReplaceAll(s1, ":", <<"\\", ":">>)
        s3 == ReplaceAll(s2, "\"", <<"\\", "\"">>)
    IN  ReplaceAll(s3, "\\", <<"\\", "\\">>)

escapeWiFiField(s) ==
    LET s1 == ReplaceAll(s, "\\", <<"\\", "\\">>)
        s2 == ReplaceAll(s1, ";", <<"\\", ";">>)
        s3 == ReplaceAll(s2, ":", <<"\\", ":">>)
    IN  ReplaceAll(s3, "\"", <<"\\", "\"">>)

\* A variant of uriEncode that replaces "%" last.
uriEncodePercentLast(s) ==
    LET s1 == ReplaceAll(s, " ", <<"%", "2", "0">>)
        s2 == ReplaceAll(s1, "&", <<"%", "2", "6">>)
        s3 == ReplaceAll(s2, "=", <<"%", "3", "D">>)
        s4 == ReplaceAll(s3, "#", <<"%", "2", "3">>)
        s5 == ReplaceAll(s4, "\n", <<"%", "0", "A">>)
    IN  ReplaceAll(s5, "%", <<"%", "2", "5">>)

uriEncode(s) ==
    LET s1 == ReplaceAll(s, "%", <<"%", "2", "5">>)
        s2 == ReplaceAll(s1, " ", <<"%", "2", "0">>)
        s3 == ReplaceAll(s2, "&", <<"%", "2", "6">>)
        s4 == ReplaceAll(s3, "=", <<"%", "3", "D">>)
        s5 == ReplaceAll(s4, "#", <<"%", "2", "3">>)
    IN  ReplaceAll(s5, "\n", <<"%", "0", "A">>)

\* WiFiData.Encode
WiFiEncode(w) ==
    LET hidden   == IF w.Hidden THEN <<"H", ":", "t", "r", "u", "e", ";">> ELSE <<>>
        password == IF w.Encryption # WiFiNone
                    THEN <<"P", ":">> \o escapeWiFiField(w.Password) \o <<";">>
                    ELSE <<>>
    IN  <<"W", "I", "F", "I", ":", "T", ":">> \o w.Encryption \o <<";", "S", ":">> \o escapeWiFiField(w.SSID)
            \o <<";">> \o password \o hidden \o <<";">>

CRLF == <<"\r", "\n">>

\* A variant of VCardEncode that names a contact by its first name only.
VCardEncodeFirstNameOnly(v) ==
    LET fullName == TrimSpace(v.FirstName)
        line(tag, val) == IF val # <<>> THEN tag \o val \o CRLF ELSE <<>>
    IN  <<"B", "E", "G", "I", "N", ":", "V", "C", "A", "R", "D">> \o CRLF \o <<"V", "E", "R", "S", "I", "O", "N", ":", "3", ".", "0">> \o CRLF
            \o (IF fullName # <<>>
                THEN <<"F", "N", ":">> \o fullName \o CRLF
                        \o <<"N", ":">> \o v.LastName \o <<";">> \o v.FirstName
                        \o <<";", ";", ";">> \o CRLF
                ELSE <<>>)
            \o line(<<"O", "R", "G", ":">>, v.Organization)
            \o line(<<"T", "I", "T", "L", "E", ":">>, v.Title)
            \o line(<<"T", "E", "L", ";", "T", "Y", "P", "E", "=", "C", "E", "L", "L", ":">>, v.Phone)
            \o line(<<"E", "M", "A", "I", "L", ":">>, v.Email)
            \o line(<<"U", "R", "L", ":">>, v.URL)
            \o <<"E", "N", "D", ":", "V", "C", "A", "R", "D">> \o CRLF

\* VCardData.Encode
VCardEncode(v) ==
    LET fullName == TrimSpace(v.FirstName \o <<" ">> \o v.LastName)
        line(tag, val) == IF val # <<>> THEN tag \o val \o CRLF ELSE <<>>
    IN  <<"B", "E", "G", "I", "N", ":", "V", "C", "A", "R", "D">> \o CRLF \o <<"V", "E", "R", "S", "I", "O", "N", ":", "3", ".", "0">> \o CRLF
            \o (IF fullName # <<>>
                THEN <<"F", "N", ":">> \o fullName \o CRLF
                        \o <<"N", ":">> \o v.LastName \o <<";">> \o v.FirstName
                        \o <<";", ";", ";">> \o CRLF
                ELSE <<>>)
            \o line(<<"O", "R", "G", ":">>, v.Organization)
            \o line(<<"T", "I", "T", "L", "E", ":">>, v.Title)
            \o line(<<"T", "E", "L", ";", "T", "Y", "P", "E", "=", "C", "E", "L", "L", ":">>, v.Phone)
            \o line(<<"E", "M", "A", "I", "L", ":">>, v.Email)
            \o line(<<"U", "R", "L", ":">>, v.URL)
            \o <<"E", "N", "D", ":", "V", "C", "A", "R", "D">> \o CRLF

\* EmailData.Encode
EmailEncode(e) ==
    LET subject == IF e.Subject # <<>> THEN <<<<"s", "u", "b", "j", "e", "c", "t", "=">> \o uriEncode(e.Subject)>> ELSE <<>>
        body    == IF e.Body # <<>> THEN <<<<"b", "o", "d", "y", "=">> \o uriEncode(e.Body)>> ELSE <<>>
        params  == subject \o body
        joined  == IF Len(params) = 2 THEN params[1] \o <<"&">> \o params[2]
                   ELSE IF Len(params) = 1 THEN params[1] ELSE <<>>
    IN  <<"m", "a", "i", "l", "t", "o", ":">> \o e.Address \o (IF Len(params) > 0 THEN <<"?">> \o joined ELSE <<>>)

\* A variant of SMSEncode that always writes the ":".
SMSEncodeAlwaysColon(s) ==
    <<"s", "m", "s", "t", "o", ":">> \o s.Phone \o <<":">> \o s.Message

\* SMSData.Encode
SMSEncode(s) ==
    IF s.Message # <<>> THEN <<"s", "m", "s", "t", "o", ":">> \o s.Phone \o <<":">> \o s.Message
    ELSE <<"s", "m", "s", "t", "o", ":">> \o s.Phone

(***************************************************************************)
(* Key messages and bubbles/textinput                                      *)
(***************************************************************************)

\* A named key (enter, esc, tab, ...): it carries no text.
Named(name) == [s |-> name, runes |-> <<>>]

\* Typed or pasted text: String() of one rune is the rune itself; the pasted
\* runs used here spell no key name, so they match no case of any handler.
Runes(txt) == [s |-> IF Len(txt) = 1 THEN txt[1] ELSE "runes", runes |-> txt]

\* textinput.New with the CharLimit the caller sets.
newTextInput(charLimit) == [value |-> <<>>, focus |-> FALSE, CharLimit |-> charLimit]

Focus(ti) == [ti EXCEPT !.focus = TRUE]

Blur(ti) == [ti EXCEPT !.focus = FALSE]

\* textinput.SetValue: the value is cut to the CharLimit.
SetValue(ti, v) ==
    [ti EXCEPT !.value =
        IF ti.CharLimit > 0 /\ Len(v) > ti.CharLimit THEN SubSeq(v, 1, ti.CharLimit) ELSE v]

\* textinput.Update for a key message, the cursor being at the end of the
\* value: an unfocused input ignores it, backspace deletes the last character,
\* ctrl+u deletes the line, any other key inserts the runes it carries as far
\* as the CharLimit leaves room.
TextInputUpdate(ti, k) ==
    IF ~ti.focus THEN ti
    ELSE IF k.s \in {"backspace", "ctrl+h"}
         THEN [ti EXCEPT !.value = IF @ = <<>> THEN @ ELSE SubSeq(@, 1, Len(@) - 1)]
    ELSE IF k.s = "ctrl+u" THEN [ti EXCEPT !.value = <<>>]
    ELSE LET avail == ti.CharLimit - Len(ti.value)
         IN  IF ti.CharLimit > 0 /\ avail <= 0 THEN ti
             ELSE IF ti.CharLimit > 0 /\ avail < Len(k.runes)
                  THEN [ti EXCEPT !.value = @ \o SubSeq(k.runes, 1, avail)]
             ELSE [ti EXCEPT !.value = @ \o k.runes]

(***************************************************************************)
(* internal/ui/template_wizard.go                                          *)
(***************************************************************************)

TextFieldNames ==
    {"wifiSSID", "wifiPassword", "vcardFirstName", "vcardLastName", "vcardPhone",
     "vcardEmail", "vcardOrg", "vcardTitle", "vcardURL", "emailAddress",
     "emailSubject", "emailBody", "smsPhone", "smsMessage"}

\* The text input at each focus index of a content type; a toggle field of the
\* WiFi form (indices 2 and 3) has none.
FieldAt(ct, i) ==
    CASE ct = ContentWiFi ->
            (CASE i = 0 -> "wifiSSID" [] i = 1 -> "wifiPassword" [] OTHER -> "")
      [] ct = ContentVCard ->
            (CASE i = 0 -> "vcardFirstName" [] i = 1 -> "vcardLastName"
               [] i = 2 -> "vcardPhone" [] i = 3 -> "vcardEmail"
               [] i = 4 -> "vcardOrg" [] i = 5 -> "vcardTitle"
               [] i = 6 -> "vcardURL" [] OTHER -> "")
      [] ct = ContentEmail ->
            (CASE i = 0 -> "emailAddress" [] i = 1 -> "emailSubject"
               [] i = 2 -> "emailBody" [] OTHER -> "")
      [] ct = ContentSMS ->
            (CASE i = 0 -> "smsPhone" [] i = 1 -> "smsMessage" [] OTHER -> "")
      [] OTHER -> ""

blurAll(tw) ==
    [f \in DOMAIN tw |-> IF f \in TextFieldNames THEN Blur(tw[f]) ELSE tw[f]]

\* focusField: blur every input, then focus the one at focusIndex (if any).
focusField(tw) ==
    LET b == blurAll(tw)
        f == FieldAt(tw.contentType, tw.focusIndex)
    IN  IF f = "" THEN b ELSE [b EXCEPT ![f] = Focus(@)]

focusFirst(tw) == focusField([tw EXCEPT !.focusIndex = 0])

NewTemplateWizard(ct) ==
    focusFirst(
        [contentType    |-> ct,
         wifiSSID       |-> newTextInput(64),
         wifiPassword   |-> newTextInput(128),
         wifiEncIndex   |-> 0,
         wifiHidden     |-> FALSE,
         vcardFirstName |-> newTextInput(64),
         vcardLastName  |-> newTextInput(64),
         vcardPhone     |-> newTextInput(20),
         vcardEmail     |-> newTextInput(128),
         vcardOrg       |-> newTextInput(128),
         vcardTitle     |-> newTextInput(128),
         vcardURL       |-> newTextInput(256),
         emailAddress   |-> newTextInput(128),
         emailSubject   |-> newTextInput(256),
         emailBody      |-> newTextInput(512),
         smsPhone       |-> newTextInput(20),
         smsMessage     |-> newTextInput(256),
         focusIndex     |-> 0,
         confirmed      |-> FALSE,
         result         |-> <<>>])

fieldCount(tw) ==
    CASE tw.contentType = ContentWiFi  -> 4
      [] tw.contentType = ContentVCard -> 7
      [] tw.contentType = ContentEmail -> 3
      [] tw.contentType = ContentSMS   -> 2
      [] OTHER -> 0

\* A variant of isToggleField that knows the encryption selector only.
isToggleFieldEncryptionOnly(tw) == tw.contentType = ContentWiFi /\ tw.focusIndex = 2

isToggleField(tw) ==
    tw.contentType = ContentWiFi /\ (tw.focusIndex = 2 \/ tw.focusIndex = 3)

handleToggle(tw, key) ==
    IF tw.contentType = ContentWiFi
    THEN IF tw.focusIndex = 2
         THEN CASE key = "left"  -> [tw EXCEPT !.wifiEncIndex = IF @ > 0 THEN @ - 1 ELSE @]
                [] key = "right" -> [tw EXCEPT !.wifiEncIndex = IF @ < 2 THEN @ + 1 ELSE @]
                [] key = " "     -> [tw EXCEPT !.wifiEncIndex = (@ + 1) % 3]
                [] OTHER -> tw
         ELSE IF tw.focusIndex = 3 THEN [tw EXCEPT !.wifiHidden = ~@]
         ELSE tw
    ELSE tw

updateCurrentInput(tw, k) ==
    LET f == FieldAt(tw.contentType, tw.focusIndex)
    IN  IF f = "" THEN tw ELSE [tw EXCEPT ![f] = TextInputUpdate(@, k)]

\* tryEncode: [ok, tw]; the result is written only when validation passes.
tryEncode(tw) ==
    CASE tw.contentType = ContentWiFi ->
            LET ssid == TrimSpace(tw.wifiSSID.value)
            IN  IF ssid = <<>> THEN [ok |-> FALSE, tw |-> tw]
                ELSE [ok |-> TRUE,
                      tw |-> [tw EXCEPT !.result =
                                WiFiEncode([SSID       |-> ssid,
                                            Password   |-> tw.wifiPassword.value,
                                            Encryption |-> WiFiEncryptionTypes[tw.wifiEncIndex + 1],
                                            Hidden     |-> tw.wifiHidden])]]
      [] tw.contentType = ContentVCard ->
            LET firstName == TrimSpace(tw.vcardFirstName.value)
                lastName  == TrimSpace(tw.vcardLastName.value)
            IN  IF firstName = <<>> /\ lastName = <<>> THEN [ok |-> FALSE, tw |-> tw]
                ELSE [ok |-> TRUE,
                      tw |-> [tw EXCEPT !.result =
                                VCardEncode([FirstName    |-> firstName,
                                             LastName     |-> lastName,
                                             Phone        |-> TrimSpace(tw.vcardPhone.value),
                                             Email        |-> TrimSpace(tw.vcardEmail.value),
                                             Organization |-> TrimSpace(tw.vcardOrg.value),
                                             Title        |-> TrimSpace(tw.vcardTitle.value),
                                             URL          |-> TrimSpace(tw.vcardURL.value)])]]
      [] tw.contentType = ContentEmail ->
            LET addr == TrimSpace(tw.emailAddress.value)
            IN  IF addr = <<>> THEN [ok |-> FALSE, tw |-> tw]
                ELSE [ok |-> TRUE,
                      tw |-> [tw EXCEPT !.result =
                                EmailEncode([Address |-> addr,
                                             Subject |-> TrimSpace(tw.emailSubject.value),
                                             Body    |-> TrimSpace(tw.emailBody.value)])]]
      [] tw.contentType = ContentSMS ->
            LET phone == TrimSpace(tw.smsPhone.value)
            IN  IF phone = <<>> THEN [ok |-> FALSE, tw |-> tw]
                ELSE [ok |-> TRUE,
                      tw |-> [tw EXCEPT !.result =
                                SMSEncode([Phone   |-> phone,
                                           Message |-> TrimSpace(tw.smsMessage.value)])]]
      [] OTHER -> [ok |-> FALSE, tw |-> tw]

\* The tail of TemplateWizard.Update: the key goes to the focused text input
\* unless a toggle field is focused.
forwardToInput(tw, k) ==
    IF ~isToggleField(tw) THEN updateCurrentInput(tw, k) ELSE tw

\* TemplateWizard.Update
TemplateWizardUpdate(tw, k) ==
    IF k.s \in {"tab", "down"} /\ tw.focusIndex < fieldCount(tw) - 1
        THEN focusField([tw EXCEPT !.focusIndex = @ + 1])
    ELSE IF k.s \in {"shift+tab", "up"} /\ tw.focusIndex > 0
        THEN focusField([tw EXCEPT !.focusIndex = @ - 1])
    ELSE IF k.s = "enter" /\ tryEncode(tw).ok
        THEN [tryEncode(tw).tw EXCEPT !.confirmed = TRUE]
    ELSE IF k.s \in {"left", "right", " "} /\ isToggleField(tw)
        THEN handleToggle(tw, k.s)
    ELSE forwardToInput(tw, k)

(***************************************************************************)
(* The environment: the file system the wizard sees and the outcome of     *)
(* each call a handler makes outside the wizard.  An outcome record e has  *)
(*   home, cwd : whether os.UserHomeDir / os.Getwd succeed                 *)
(*   readDir   : whether os.ReadDir succeeds on an existing directory      *)
(*   gen       : "ok", or the step of Generate that fails                  *)
(*   store, add, preview : whether history.NewStore, Store.Add and         *)
(*               the QR encoding of the terminal preview succeed           *)
(***************************************************************************)

HomeDir == <<"/", "h">>

WorkDir == <<"/", "w">>

GenOutcomes == {"ok", "mkdir", "qrcode", "write"}

Outcomes ==
    [home : BOOLEAN, cwd : BOOLEAN, readDir : BOOLEAN, gen : GenOutcomes,
     store : BOOLEAN, add : BOOLEAN, preview : BOOLEAN]

AllSucceed ==
    [home |-> TRUE, cwd |-> TRUE, readDir |-> TRUE, gen |-> "ok",
     store |-> TRUE, add |-> TRUE, preview |-> TRUE]

DirEntry(name, isDir) == [name |-> name, isDir |-> isDir]

\* A long directory, hidden in the working directory: the first MaxListed of
\* these names, every third a directory (none of which can be read).
MaxListed == 14

LongDir == <<"/", "w", ".", "g">>

LongNames ==
    <<<<"a">>, <<"a", "a">>, <<"a", "b">>, <<"a", "c">>,
      <<"b">>, <<"c">>, <<"d">>, <<"e">>,
      <<"g">>, <<"h">>, <<"n">>, <<"p">>,
      <<"q">>, <<"w">>, <<"w", "a">>, <<"w", "b">>>>

LongListing == [i \in 1..MaxListed |-> DirEntry(LongNames[i], i % 3 = 0)]

\* The directories of the file system, each with what os.ReadDir returns for
\* it (sorted by file name).
FileSystem ==
    (<<"/">> :> <<DirEntry(<<"h">>, TRUE), DirEntry(<<"w">>, TRUE)>>)
    @@ (HomeDir :> <<DirEntry(<<".", "c">>, FALSE), DirEntry(<<"b">>, FALSE)>>)
    @@ (WorkDir :> <<DirEntry(<<".", "g">>, TRUE), DirEntry(<<"a", ".", "p", "n", "g">>, FALSE),
                     DirEntry(<<"d">>, TRUE), DirEntry(<<"e">>, TRUE)>>)
    @@ (<<"/", "w", "d">> :> <<>>)
    @@ (<<"/", "w", "e">> :> <<DirEntry(<<"b">>, FALSE), DirEntry(<<"c">>, FALSE)>>)
    @@ (LongDir :> LongListing)

\* Byte order of the characters that occur in file names.
CharOrder == <<".", "/", "a", "b", "c", "d", "e", "g", "h", "n", "p", "q", "w">>

Ord(c) == CHOOSE i \in 1..Len(CharOrder) : CharOrder[i] = c

\* a < b on strings (Go's string comparison).
RECURSIVE StrLess(_, _)
StrLess(a, b) ==
    IF b = <<>> THEN FALSE
    ELSE IF a = <<>> THEN TRUE
    ELSE IF Head(a) = Head(b) THEN StrLess(Tail(a), Tail(b))
    ELSE Ord(Head(a)) < Ord(Head(b))

RECURSIVE InsertByName(_, _)
InsertByName(sorted, x) ==
    IF sorted = <<>> THEN <<x>>
    ELSE IF StrLess(x.name, Head(sorted).name) THEN <<x>> \o sorted
    ELSE <<Head(sorted)>> \o InsertByName(Tail(sorted), x)

\* sort.Slice(xs, by name ascending)
RECURSIVE SortByName(_)
SortByName(xs) ==
    IF xs = <<>> THEN <<>> ELSE InsertByName(SortByName(Tail(xs)), Head(xs))

SelectSeqDir(xs, wantDir) == SelectSeq(xs, LAMBDA x : x.isDir = wantDir)

(***************************************************************************)
(* internal/ui/filepicker.go                                               *)
(***************************************************************************)

isRootDir(dir) == dir = <<"/">>

\* A variant of listEntries that keeps the hidden entries.
listEntriesWithHidden(dir, dirEntries) ==
    LET parent == IF ~isRootDir(dir) THEN <<DirEntry(<<".", ".">>, TRUE)>> ELSE <<>>
        dirs   == SortByName(SelectSeqDir(dirEntries, TRUE))
        files  == SortByName(SelectSeqDir(dirEntries, FALSE))
    IN  parent \o dirs \o files

\* loadEntries, once os.ReadDir has returned dirEntries: the entries listed.
listEntries(dir, dirEntries) ==
    LET visible == SelectSeq(dirEntries, LAMBDA x : ~HasPrefix(x.name, <<".">>))
        parent  == IF ~isRootDir(dir) THEN <<DirEntry(<<".", ".">>, TRUE)>> ELSE <<>>
        dirs    == SortByName(SelectSeqDir(visible, TRUE))
        files   == SortByName(SelectSeqDir(visible, FALSE))
    IN  parent \o dirs \o files

\* A variant of loadEntries that leaves the cursor and the offset where they
\* were.
loadEntriesKeepsCursor(fp, e) ==
    IF ~e.readDir \/ fp.dir \notin DOMAIN FileSystem
    THEN [fp EXCEPT !.err = Errorf("ReadDir", fp.dir), !.entries = <<>>]
    ELSE [fp EXCEPT !.err = NoError,
                    !.entries = listEntries(fp.dir, FileSystem[fp.dir])]

\* A variant of loadEntries that keeps the old listing when the directory
\* cannot be read.
loadEntriesKeepsListing(fp, e) ==
    IF ~e.readDir \/ fp.dir \notin DOMAIN FileSystem
    THEN [fp EXCEPT !.err = Errorf("ReadDir", fp.dir)]
    ELSE [fp EXCEPT !.err = NoError,
                    !.entries = listEntries(fp.dir, FileSystem[fp.dir]),
                    !.cursor = 0,
                    !.offset = 0]

\* loadEntries
loadEntries(fp, e) ==
    IF ~e.readDir \/ fp.dir \notin DOMAIN FileSystem
    THEN [fp EXCEPT !.err = Errorf("ReadDir", fp.dir), !.entries = <<>>]
    ELSE [fp EXCEPT !.err = NoError,
                    !.entries = listEntries(fp.dir, FileSystem[fp.dir]),
                    !.cursor = 0,
                    !.offset = 0]

\* NewFilePicker
NewFilePicker(e) ==
    LET startDir == IF e.cwd THEN WorkDir ELSE IF e.home THEN HomeDir ELSE <<".">>
    IN  loadEntries(
            [dir          |-> startDir,
             entries      |-> <<>>,
             cursor       |-> 0,
             offset       |-> 0,
             maxVisible   |-> 12,
             err          |-> NoError,
             nameInput    |-> newTextInput(256),
             nameMode     |-> FALSE,
             selectedPath |-> <<>>,
             confirmed    |-> FALSE], e)

\* navigateTo
navigateTo(fp, dir, e) ==
    IF ~IsAbs(dir) /\ ~e.cwd THEN [fp EXCEPT !.err = Errorf("Getwd", <<>>)]
    ELSE LET absDir == IF IsAbs(dir) THEN Clean(dir) ELSE Join(WorkDir, dir)
         IN  [loadEntries([fp EXCEPT !.dir = absDir], e) EXCEPT !.nameMode = FALSE]

\* updateBrowseMode
updateBrowseMode(fp, k, e) ==
    CASE k.s \in {"up", "k"} ->
            IF fp.cursor > 0
            THEN [fp EXCEPT !.cursor = @ - 1,
                            !.offset = IF fp.cursor - 1 < @ THEN fp.cursor - 1 ELSE @]
            ELSE fp
      [] k.s \in {"down", "j"} ->
            IF fp.cursor < Len(fp.entries) - 1
            THEN [fp EXCEPT !.cursor = @ + 1,
                            !.offset = IF fp.cursor + 1 >= @ + fp.maxVisible
                                       THEN fp.cursor + 1 - fp.maxVisible + 1 ELSE @]
            ELSE fp
      [] k.s = "enter" ->
            IF Len(fp.entries) = 0 THEN fp
            ELSE LET entry == fp.entries[fp.cursor + 1]
                 IN  IF entry.isDir
                     THEN navigateTo(fp, IF entry.name = <<".", ".">> THEN Dir(fp.dir)
                                         ELSE Join(fp.dir, entry.name), e)
                     ELSE [fp EXCEPT !.selectedPath = Join(fp.dir, entry.name),
                                     !.confirmed = TRUE]
      [] k.s = "n" ->
            [fp EXCEPT !.nameMode = TRUE, !.nameInput = Focus(SetValue(@, <<>>))]
      [] k.s = "~" ->
            IF e.home THEN navigateTo(fp, HomeDir, e) ELSE fp
      [] k.s \in {"backspace", "delete"} ->
            IF Dir(fp.dir) # fp.dir THEN navigateTo(fp, Dir(fp.dir), e) ELSE fp
      [] OTHER -> fp

\* A variant of updateNameMode that accepts a name of spaces.
updateNameModeUntrimmed(fp, k) ==
    IF k.s = "enter"
    THEN LET name == fp.nameInput.value
         IN  IF name = <<>> THEN fp
             ELSE [fp EXCEPT !.selectedPath = Join(fp.dir, name), !.confirmed = TRUE]
    ELSE IF k.s = "esc"
    THEN [fp EXCEPT !.nameMode = FALSE, !.nameInput = Blur(@)]
    ELSE [fp EXCEPT !.nameInput = TextInputUpdate(@, k)]

\* updateNameMode
updateNameMode(fp, k) ==
    IF k.s = "enter"
    THEN LET name == TrimSpace(fp.nameInput.value)
         IN  IF name = <<>> THEN fp
             ELSE [fp EXCEPT !.selectedPath = Join(fp.dir, name), !.confirmed = TRUE]
    ELSE IF k.s = "esc"
    THEN [fp EXCEPT !.nameMode = FALSE, !.nameInput = Blur(@)]
    ELSE [fp EXCEPT !.nameInput = TextInputUpdate(@, k)]

\* FilePicker.Update
FilePickerUpdate(fp, k, e) ==
    IF fp.nameMode THEN updateNameMode(fp, k) ELSE updateBrowseMode(fp, k, e)

\* FilePicker.Reset
Reset(fp) ==
    [fp EXCEPT !.confirmed = FALSE,
               !.selectedPath = <<>>,
               !.nameMode = FALSE,
               !.nameInput = Blur(SetValue(@, <<>>))]

(***************************************************************************)
(* internal/generator, internal/history as the wizard calls them           *)
(***************************************************************************)

\* A variant of Generate that makes the output directory before it
\* validates the configuration.
GenerateMakesDirectoryFirst(c, e) ==
    LET dir     == Dir(c.OutputPath)
        mkdir   == IF dir # <<>> /\ dir # <<".">> THEN <<"os.MkdirAll">> ELSE <<>>
        write   == IF c.Format = FormatPNG THEN <<"os.Create">> ELSE <<"os.WriteFile">>
    IN  IF mkdir # <<>> /\ e.gen = "mkdir"
        THEN [err |-> Errorf("failed to create output directory: %w", <<>>), fx |-> mkdir]
        ELSE IF Validate(c) # NoError
        THEN [err |-> Errorf("invalid configuration: %w", <<Validate(c)[1]>>), fx |-> mkdir]
        ELSE IF e.gen = "qrcode"
        THEN [err |-> Errorf("failed to create QR code: %w", <<>>), fx |-> mkdir]
        ELSE IF e.gen = "write"
        THEN [err |-> Errorf("failed to write output file: %w", <<>>), fx |-> mkdir \o write]
        ELSE [err |-> NoError, fx |-> mkdir \o write]

\* Generator.Generate: [err, fx], fx being the file-system calls it made.
Generate(c, e) ==
    LET dir     == Dir(c.OutputPath)
        mkdir   == IF dir # <<>> /\ dir # <<".">> THEN <<"os.MkdirAll">> ELSE <<>>
        write   == IF c.Format = FormatPNG THEN <<"os.Create">> ELSE <<"os.WriteFile">>
    IN  IF Validate(c) # NoError
        THEN [err |-> Errorf("invalid configuration: %w", <<Validate(c)[1]>>), fx |-> <<>>]
        ELSE IF mkdir # <<>> /\ e.gen = "mkdir"
        THEN [err |-> Errorf("failed to create output directory: %w", <<>>), fx |-> mkdir]
        ELSE IF c.Format # FormatPNG /\ c.Format # FormatSVG
        THEN [err |-> Errorf("unsupported format: %s", c.Format), fx |-> mkdir]
        ELSE IF e.gen = "qrcode"
        THEN [err |-> Errorf("failed to create QR code: %w", <<>>), fx |-> mkdir]
        ELSE IF e.gen = "write"
        THEN [err |-> Errorf("failed to write output file: %w", <<>>), fx |-> mkdir \o write]
        ELSE [err |-> NoError, fx |-> mkdir \o write]

\* The escape sequence of a cell, as its parts: the introducer, the
\* foreground code, the background code and the upper half block.
\* Index: [topIsDark][bottomIsDark], as boolToInt numbers them.
qrANSICodes ==
    <<<<<<"ESC[", "97", ";", "107", "m", "U+2580">>, <<"ESC[", "97", ";", "40", "m", "U+2580">>>>,
      <<<<"ESC[", "30", ";", "107", "m", "U+2580">>, <<"ESC[", "30", ";", "40", "m", "U+2580">>>>>>

ansiReset == <<"ESC[", "0", "m">>

boolToInt(b) == IF b THEN 1 ELSE 0

\* The two loops of renderBitmapToTerminal from row y and column x on: what
\* is written to the buffer.
RECURSIVE renderFrom(_, _, _)
renderFrom(bitmap, y, x) ==
    LET rows == Len(bitmap)
        cols == Len(bitmap[1])
    IN  IF y >= rows THEN <<>>
        ELSE IF x < cols
        THEN LET topDark    == bitmap[y + 1][x + 1]
                 bottomDark == IF y + 1 < rows THEN bitmap[y + 2][x + 1] ELSE FALSE
             IN  qrANSICodes[boolToInt(topDark) + 1][boolToInt(bottomDark) + 1]
                    \o renderFrom(bitmap, y, x + 1)
        ELSE ansiReset \o <<"\n">> \o renderFrom(bitmap, y + 2, 0)

\* A variant of renderBitmapToTerminal that takes the modules below an odd
\* last row as dark.
renderBitmapDarkBelow(bitmap) ==
    IF Len(bitmap) = 0 THEN <<>>
    ELSE IF Len(bitmap) % 2 = 1
    THEN renderFrom(Append(bitmap, [x \in 1..Len(bitmap[1]) |-> TRUE]), 0, 0)
    ELSE renderFrom(bitmap, 0, 0)

\* renderBitmapToTerminal
renderBitmapToTerminal(bitmap) ==
    IF Len(bitmap) = 0 THEN <<>> ELSE renderFrom(bitmap, 0, 0)

\* GenerateTerminalPreview: [ok, preview]; the rendering of the content's QR
\* bitmap is kept as the content it encodes.
GenerateTerminalPreview(content, e) ==
    IF content = <<>> \/ ~e.preview THEN [ok |-> FALSE, preview |-> <<>>]
    ELSE [ok |-> TRUE, preview |-> <<"Q", "R", ":">> \o content]

(***************************************************************************)
(* internal/ui/model.go                                                    *)
(***************************************************************************)

StepContentType == 0

StepURL == 1

StepTemplate == 2

StepFormat == 3

StepColor == 4

StepBgColor == 5

StepSize == 6

StepOutput == 7

StepConfirm == 8

StepComplete == 9

\* New
New(e) ==
    [config            |-> [DefaultConfig EXCEPT !.OutputPath =
                               Join(IF e.home THEN HomeDir ELSE <<".">>, DefaultConfig.OutputPath)],
     step              |-> StepContentType,
     urlInput          |-> newTextInput(2048),
     sizeInput         |-> newTextInput(4),
     outputInput       |-> newTextInput(256),
     colorInput        |-> newTextInput(7),
     formatIndex       |-> 0,
     colorIndex        |-> 0,
     contentTypeIdx    |-> 0,
     templateWizard    |-> <<>>,
     bgColorIndex      |-> 0,
     bgColorInput      |-> newTextInput(7),
     fileBrowserActive |-> FALSE,
     filePicker        |-> NewFilePicker(e),
     qrPreview         |-> <<>>,
     err               |-> NoError,
     successPath       |-> <<>>,
     quitting          |-> FALSE,
     width             |-> 0,
     height            |-> 0]

\* What a handler returns: the model and the calls it made outside the wizard.
Ret(mm) == [m |-> mm, fx |-> <<>>]

\* The content type selected on the ContentType step.
SelectedType(mm) == contentTypes[mm.contentTypeIdx + 1]

\* A variant of previousStep that forgets the template form.
previousStepAlwaysURL(mm) ==
    CASE mm.step \in {StepURL, StepTemplate} -> StepContentType
      [] mm.step = StepFormat  -> StepURL
      [] mm.step = StepColor   -> StepFormat
      [] mm.step = StepBgColor -> StepColor
      [] mm.step = StepSize    -> StepBgColor
      [] mm.step = StepOutput  -> StepSize
      [] mm.step = StepConfirm -> StepOutput
      [] OTHER -> mm.step

\* previousStep
\* A variant of previousStep that has no step before Size.
previousStepStopsAtSize(mm) ==
    CASE mm.step \in {StepURL, StepTemplate} -> StepContentType
      [] mm.step = StepFormat ->
            IF SelectedType(mm) = ContentURL \/ SelectedType(mm) = ContentText
            THEN StepURL ELSE StepTemplate
      [] mm.step = StepColor   -> StepFormat
      [] mm.step = StepBgColor -> StepColor
      [] mm.step = StepOutput  -> StepSize
      [] mm.step = StepConfirm -> StepOutput
      [] OTHER -> mm.step

previousStep(mm) ==
    CASE mm.step \in {StepURL, StepTemplate} -> StepContentType
      [] mm.step = StepFormat ->
            IF SelectedType(mm) = ContentURL \/ SelectedType(mm) = ContentText
            THEN StepURL ELSE StepTemplate
      [] mm.step = StepColor   -> StepFormat
      [] mm.step = StepBgColor -> StepColor
      [] mm.step = StepSize    -> StepBgColor
      [] mm.step = StepOutput  -> StepSize
      [] mm.step = StepConfirm -> StepOutput
      [] OTHER -> mm.step

\* focusStep: focus the text input of the current step.
focusStep(mm) ==
    CASE mm.step = StepURL -> [mm EXCEPT !.urlInput = Focus(@)]
      [] mm.step = StepTemplate ->
            IF mm.templateWizard # <<>>
            THEN [mm EXCEPT !.templateWizard = <<focusFirst(@[1])>>]
            ELSE mm
      [] mm.step = StepSize -> [mm EXCEPT !.sizeInput = Focus(@)]
      [] mm.step = StepOutput ->
            IF mm.fileBrowserActive
            THEN IF mm.filePicker.nameMode
                 THEN [mm EXCEPT !.filePicker.nameInput = Focus(@)]
                 ELSE mm
            ELSE [mm EXCEPT !.outputInput = Focus(@)]
      [] mm.step = StepColor ->
            IF mm.colorIndex = -1 THEN [mm EXCEPT !.colorInput = Focus(@)] ELSE mm
      [] mm.step = StepBgColor ->
            IF mm.bgColorIndex = -1 THEN [mm EXCEPT !.bgColorInput = Focus(@)] ELSE mm
      [] OTHER -> mm

\* A variant of handleURLStep that takes the input as typed.
handleURLStepUntrimmed(mm, k) ==
    IF k.s = "enter"
    THEN LET url == mm.urlInput.value
         IN  IF url = <<>>
             THEN [mm EXCEPT !.err = Errorf("please enter a URL or text to encode", <<>>)]
             ELSE [mm EXCEPT !.config.Content = url,
                             !.err = NoError,
                             !.step = StepFormat,
                             !.urlInput = Blur(@)]
    ELSE [mm EXCEPT !.urlInput = TextInputUpdate(@, k)]

handleURLStep(mm, k) ==
    IF k.s = "enter"
    THEN LET url == TrimSpace(mm.urlInput.value)
         IN  IF url = <<>>
             THEN [mm EXCEPT !.err = Errorf("please enter a URL or text to encode", <<>>)]
             ELSE [mm EXCEPT !.config.Content = url,
                             !.err = NoError,
                             !.step = StepFormat,
                             !.urlInput = Blur(@)]
    ELSE [mm EXCEPT !.urlInput = TextInputUpdate(@, k)]

\* A variant of handleFormatStep whose number keys confirm the format at once.
handleFormatStepQuickPick(mm, k) ==
    CASE k.s \in {"left", "h"} -> [mm EXCEPT !.formatIndex = IF @ > 0 THEN @ - 1 ELSE @]
      [] k.s \in {"right", "l"} -> [mm EXCEPT !.formatIndex = IF @ < 1 THEN @ + 1 ELSE @]
      [] k.s \in {"enter", " "} ->
            [mm EXCEPT !.config.Format = IF mm.formatIndex = 0 THEN FormatPNG ELSE FormatSVG,
                       !.err = NoError,
                       !.step = StepColor]
      [] k.s = "1" -> [mm EXCEPT !.formatIndex = 0, !.config.Format = FormatPNG,
                                 !.step = StepBgColor]
      [] k.s = "2" -> [mm EXCEPT !.formatIndex = 1, !.config.Format = FormatSVG,
                                 !.step = StepBgColor]
      [] OTHER -> mm

handleFormatStep(mm, k) ==
    CASE k.s \in {"left", "h"} -> [mm EXCEPT !.formatIndex = IF @ > 0 THEN @ - 1 ELSE @]
      [] k.s \in {"right", "l"} -> [mm EXCEPT !.formatIndex = IF @ < 1 THEN @ + 1 ELSE @]
      [] k.s \in {"enter", " "} ->
            [mm EXCEPT !.config.Format = IF mm.formatIndex = 0 THEN FormatPNG ELSE FormatSVG,
                       !.err = NoError,
                       !.step = StepColor]
      [] k.s = "1" -> [mm EXCEPT !.formatIndex = 0, !.config.Format = FormatPNG]
      [] k.s = "2" -> [mm EXCEPT !.formatIndex = 1, !.config.Format = FormatSVG]
      [] OTHER -> mm

\* A variant of handleColorStep that stores what a failed parse returned.
handleColorStepKeepsParse(mm, k) ==
    IF mm.colorIndex = -1
    THEN IF k.s = "enter"
         THEN LET hexColor == TrimSpace(mm.colorInput.value)
                  parsed   == ParseHexColor(hexColor)
              IN  IF hexColor = <<>> THEN [mm EXCEPT !.colorIndex = 0]
                  ELSE IF ~parsed.ok
                  THEN [mm EXCEPT !.err = Errorf("invalid hex color: %s", hexColor),
                                  !.config.Foreground = parsed.color]
                  ELSE [mm EXCEPT !.config.Foreground = parsed.color,
                                  !.err = NoError,
                                  !.step = StepBgColor,
                                  !.colorInput = Blur(@)]
         ELSE IF k.s = "esc"
         THEN [mm EXCEPT !.colorIndex = 0, !.colorInput = Blur(@)]
         ELSE [mm EXCEPT !.colorInput = TextInputUpdate(@, k)]
    ELSE CASE k.s \in {"up", "k"} -> [mm EXCEPT !.colorIndex = IF @ > 0 THEN @ - 1 ELSE @]
           [] k.s \in {"down", "j"} ->
                [mm EXCEPT !.colorIndex = IF @ < Len(colorNames) - 1 THEN @ + 1 ELSE @]
           [] k.s = "c" -> [mm EXCEPT !.colorIndex = -1, !.colorInput = Focus(@)]
           [] k.s \in {"enter", " "} ->
                [mm EXCEPT !.config.Foreground = PredefinedColors[colorNames[mm.colorIndex + 1]],
                           !.err = NoError,
                           !.step = StepBgColor]
           [] OTHER -> mm

handleColorStep(mm, k) ==
    IF mm.colorIndex = -1
    THEN IF k.s = "enter"
         THEN LET hexColor == TrimSpace(mm.colorInput.value)
                  parsed   == ParseHexColor(hexColor)
              IN  IF hexColor = <<>> THEN [mm EXCEPT !.colorIndex = 0]
                  ELSE IF ~parsed.ok
                  THEN [mm EXCEPT !.err = Errorf("invalid hex color: %s", hexColor)]
                  ELSE [mm EXCEPT !.config.Foreground = parsed.color,
                                  !.err = NoError,
                                  !.step = StepBgColor,
                                  !.colorInput = Blur(@)]
         ELSE IF k.s = "esc"
         THEN [mm EXCEPT !.colorIndex = 0, !.colorInput = Blur(@)]
         ELSE [mm EXCEPT !.colorInput = TextInputUpdate(@, k)]
    ELSE CASE k.s \in {"up", "k"} -> [mm EXCEPT !.colorIndex = IF @ > 0 THEN @ - 1 ELSE @]
           [] k.s \in {"down", "j"} ->
                [mm EXCEPT !.colorIndex = IF @ < Len(colorNames) - 1 THEN @ + 1 ELSE @]
           [] k.s = "c" -> [mm EXCEPT !.colorIndex = -1, !.colorInput = Focus(@)]
           [] k.s \in {"enter", " "} ->
                [mm EXCEPT !.config.Foreground = PredefinedColors[colorNames[mm.colorIndex + 1]],
                           !.err = NoError,
                           !.step = StepBgColor]
           [] OTHER -> mm

handleBgColorStep(mm, k) ==
    IF mm.bgColorIndex = -1
    THEN IF k.s = "enter"
         THEN LET hexColor == TrimSpace(mm.bgColorInput.value)
                  parsed   == ParseHexColor(hexColor)
              IN  IF hexColor = <<>> THEN [mm EXCEPT !.bgColorIndex = 0]
                  ELSE IF ~parsed.ok
                  THEN [mm EXCEPT !.err = Errorf("invalid hex color: %s", hexColor)]
                  ELSE [mm EXCEPT !.config.Background = parsed.color,
                                  !.err = NoError,
                                  !.step = StepSize,
                                  !.bgColorInput = Blur(@),
                                  !.sizeInput = Focus(@)]
         ELSE IF k.s = "esc"
         THEN [mm EXCEPT !.bgColorIndex = 0, !.bgColorInput = Blur(@)]
         ELSE [mm EXCEPT !.bgColorInput = TextInputUpdate(@, k)]
    ELSE CASE k.s \in {"up", "k"} -> [mm EXCEPT !.bgColorIndex = IF @ > 0 THEN @ - 1 ELSE @]
           [] k.s \in {"down", "j"} ->
                [mm EXCEPT !.bgColorIndex = IF @ < Len(colorNames) - 1 THEN @ + 1 ELSE @]
           [] k.s = "c" -> [mm EXCEPT !.bgColorIndex = -1, !.bgColorInput = Focus(@)]
           [] k.s \in {"enter", " "} ->
                [mm EXCEPT !.config.Background = PredefinedColors[colorNames[mm.bgColorIndex + 1]],
                           !.err = NoError,
                           !.step = StepSize,
                           !.sizeInput = Focus(@)]
           [] OTHER -> mm

\* A variant of sizeRejected with no upper limit.
sizeRejectedNoUpperLimit(sizeStr) ==
    ~Atoi(sizeStr).ok \/ Atoi(sizeStr).n < 64

\* A variant of sizeRejected whose range is open at both ends.
sizeRejectedOpenRange(sizeStr) ==
    ~Atoi(sizeStr).ok \/ Atoi(sizeStr).n <= 64 \/ Atoi(sizeStr).n >= 4096

\* The check of handleSizeStep on a non-empty trimmed input.
sizeRejected(sizeStr) ==
    ~Atoi(sizeStr).ok \/ Atoi(sizeStr).n < 64 \/ Atoi(sizeStr).n > 4096

handleSizeStep(mm, k) ==
    IF k.s = "enter"
    THEN LET sizeStr == TrimSpace(mm.sizeInput.value)
         IN  IF sizeStr # <<>> /\ sizeRejected(sizeStr)
             THEN [mm EXCEPT !.err = Errorf("size must be a number between 64 and 4096", <<>>)]
             ELSE [mm EXCEPT !.config.Size = IF sizeStr = <<>> THEN 256 ELSE Atoi(sizeStr).n,
                             !.err = NoError,
                             !.step = StepOutput,
                             !.sizeInput = Blur(@),
                             !.outputInput = Focus(@)]
    ELSE [mm EXCEPT !.sizeInput = TextInputUpdate(@, k)]

\* A variant of handleOutputFileBrowser that takes the confirmed path and
\* leaves the picker as it is.
handleOutputFileBrowserKeepsSelection(mm, k, e) ==
    IF k.s = "tab"
    THEN [mm EXCEPT !.fileBrowserActive = FALSE,
                    !.filePicker = Reset(@),
                    !.outputInput = Focus(@)]
    ELSE IF k.s = "esc" /\ ~mm.filePicker.nameMode
    THEN [mm EXCEPT !.fileBrowserActive = FALSE,
                    !.filePicker = Reset(@),
                    !.outputInput = Focus(@)]
    ELSE LET fp == FilePickerUpdate(mm.filePicker, k, e)
         IN  IF k.s # "esc" /\ fp.confirmed
             THEN [mm EXCEPT !.config = SetOutputPath(@, fp.selectedPath),
                             !.err = NoError,
                             !.step = StepConfirm,
                             !.fileBrowserActive = FALSE,
                             !.filePicker = fp]
             ELSE [mm EXCEPT !.filePicker = fp]

handleOutputFileBrowser(mm, k, e) ==
    IF k.s = "tab"
    THEN [mm EXCEPT !.fileBrowserActive = FALSE,
                    !.filePicker = Reset(@),
                    !.outputInput = Focus(@)]
    ELSE IF k.s = "esc" /\ ~mm.filePicker.nameMode
    THEN [mm EXCEPT !.fileBrowserActive = FALSE,
                    !.filePicker = Reset(@),
                    !.outputInput = Focus(@)]
    ELSE LET fp == FilePickerUpdate(mm.filePicker, k, e)
         IN  IF k.s # "esc" /\ fp.confirmed
             THEN [mm EXCEPT !.config = SetOutputPath(@, fp.selectedPath),
                             !.err = NoError,
                             !.step = StepConfirm,
                             !.fileBrowserActive = FALSE,
                             !.filePicker = Reset(fp)]
             ELSE [mm EXCEPT !.filePicker = fp]

handleOutputStep(mm, k, e) ==
    IF mm.fileBrowserActive THEN handleOutputFileBrowser(mm, k, e)
    ELSE IF k.s = "tab"
    THEN [mm EXCEPT !.fileBrowserActive = TRUE,
                    !.filePicker = loadEntries(@, e),
                    !.outputInput = Blur(@)]
    ELSE IF k.s = "enter"
    THEN LET typed    == TrimSpace(mm.outputInput.value)
             output   == IF typed = <<>> THEN <<"q", "r", "c", "o", "d", "e">> ELSE typed
             expanded == IF HasPrefix(output, <<"~">>) /\ e.home
                         THEN Join(HomeDir, Tail(output)) ELSE output
             absolute == IF ~IsAbs(expanded) /\ e.cwd
                         THEN Join(WorkDir, expanded) ELSE expanded
         IN  [mm EXCEPT !.config = SetOutputPath(@, absolute),
                        !.err = NoError,
                        !.step = StepConfirm,
                        !.outputInput = Blur(@)]
    ELSE [mm EXCEPT !.outputInput = TextInputUpdate(@, k)]

\* A variant of saveAndPreview in which a preview that cannot be rendered is
\* reported as an error and the wizard stays on the Confirm step.
saveAndPreviewStrict(mm, e) ==
    LET history == IF e.store THEN <<"history.NewStore", "Store.Add">>
                   ELSE <<"history.NewStore">>
        preview == GenerateTerminalPreview(mm.config.Content, e)
    IN  IF preview.ok
        THEN [m  |-> [mm EXCEPT !.successPath = mm.config.OutputPath,
                                !.qrPreview = preview.preview,
                                !.step = StepComplete],
              fx |-> history \o <<"GenerateTerminalPreview">>]
        ELSE [m  |-> [mm EXCEPT !.successPath = mm.config.OutputPath,
                                !.err = Errorf("failed to render preview", <<>>)],
              fx |-> history \o <<"GenerateTerminalPreview">>]

\* handleConfirmStep after Generate succeeded: the history entry and the
\* preview are best-effort, then the step becomes Complete.
saveAndPreview(mm, e) ==
    LET history == IF e.store THEN <<"history.NewStore", "Store.Add">>
                   ELSE <<"history.NewStore">>
        preview == GenerateTerminalPreview(mm.config.Content, e)
    IN  [m  |-> [mm EXCEPT !.successPath = mm.config.OutputPath,
                           !.qrPreview = IF preview.ok THEN preview.preview ELSE @,
                           !.step = StepComplete],
         fx |-> history \o <<"GenerateTerminalPreview">>]

\* A variant of handleConfirmStep that completes whatever Generate returns.
handleConfirmStepIgnoresError(mm, k, e) ==
    IF k.s \in {"enter", "y", "Y"}
    THEN LET gen == Generate(mm.config, e)
             sp  == saveAndPreview(mm, e)
         IN  [m |-> sp.m, fx |-> <<"Generate">> \o gen.fx \o sp.fx]
    ELSE IF k.s \in {"n", "N"}
    THEN Ret([mm EXCEPT !.step = StepContentType, !.fileBrowserActive = FALSE])
    ELSE Ret(mm)

\* handleConfirmStep: the model it returns and the calls it made.
handleConfirmStep(mm, k, e) ==
    IF k.s \in {"enter", "y", "Y"}
    THEN LET gen == Generate(mm.config, e)
             sp  == saveAndPreview(mm, e)
         IN  IF gen.err # NoError
             THEN [m  |-> [mm EXCEPT !.err = gen.err],
                   fx |-> <<"Generate">> \o gen.fx]
             ELSE [m |-> sp.m, fx |-> <<"Generate">> \o gen.fx \o sp.fx]
    ELSE IF k.s \in {"n", "N"}
    THEN Ret([mm EXCEPT !.step = StepContentType, !.fileBrowserActive = FALSE])
    ELSE Ret(mm)

\* A variant of handleCompleteStep whose reset keeps the configuration.
handleCompleteStepKeepsConfig(mm, k, e) ==
    IF k.s \in {"enter", "q", " "} THEN [mm EXCEPT !.quitting = TRUE]
    ELSE IF k.s = "r" THEN [New(e) EXCEPT !.config = mm.config]
    ELSE mm

handleCompleteStep(mm, k, e) ==
    IF k.s \in {"enter", "q", " "} THEN [mm EXCEPT !.quitting = TRUE]
    ELSE IF k.s = "r" THEN New(e)
    ELSE mm

\* A variant of handleContentTypeStep whose down key does not stop at the
\* last content type.
handleContentTypeStepUnclamped(mm, k) ==
    CASE k.s \in {"up", "k"} -> [mm EXCEPT !.contentTypeIdx = IF @ > 0 THEN @ - 1 ELSE @]
      [] k.s \in {"down", "j"} -> [mm EXCEPT !.contentTypeIdx = @ + 1]
      [] k.s \in {"enter", " "} ->
            IF SelectedType(mm) \in {ContentURL, ContentText}
            THEN [mm EXCEPT !.err = NoError, !.step = StepURL, !.urlInput = Focus(@)]
            ELSE [mm EXCEPT !.err = NoError,
                            !.templateWizard = <<NewTemplateWizard(SelectedType(mm))>>,
                            !.step = StepTemplate]
      [] OTHER -> mm

handleContentTypeStep(mm, k) ==
    CASE k.s \in {"up", "k"} -> [mm EXCEPT !.contentTypeIdx = IF @ > 0 THEN @ - 1 ELSE @]
      [] k.s \in {"down", "j"} ->
            [mm EXCEPT !.contentTypeIdx = IF @ < Len(contentTypes) - 1 THEN @ + 1 ELSE @]
      [] k.s \in {"enter", " "} ->
            IF SelectedType(mm) \in {ContentURL, ContentText}
            THEN [mm EXCEPT !.err = NoError, !.step = StepURL, !.urlInput = Focus(@)]
            ELSE [mm EXCEPT !.err = NoError,
                            !.templateWizard = <<NewTemplateWizard(SelectedType(mm))>>,
                            !.step = StepTemplate]
      [] OTHER -> mm

handleTemplateStep(mm, k) ==
    IF mm.templateWizard = <<>> THEN mm
    ELSE LET tw == TemplateWizardUpdate(mm.templateWizard[1], k)
         IN  IF tw.confirmed
             THEN [mm EXCEPT !.templateWizard = <<tw>>,
                             !.config.Content = tw.result,
                             !.step = StepFormat,
                             !.err = NoError]
             ELSE [mm EXCEPT !.templateWizard = <<tw>>]

\* A variant of escYields that knows the colour steps only.
escYieldsColourOnly(mm) ==
    \/ mm.step = StepColor /\ mm.colorIndex = -1
    \/ mm.step = StepBgColor /\ mm.bgColorIndex = -1

\* The esc case of Update yields to the step handler in these sub-modes.
escYields(mm) ==
    \/ mm.step = StepColor /\ mm.colorIndex = -1
    \/ mm.step = StepBgColor /\ mm.bgColorIndex = -1
    \/ mm.step = StepOutput /\ mm.fileBrowserActive

\* The step-specific handlers of Update.
stepHandler(mm, k, e) ==
    CASE mm.step = StepContentType -> Ret(handleContentTypeStep(mm, k))
      [] mm.step = StepURL         -> Ret(handleURLStep(mm, k))
      [] mm.step = StepTemplate    -> Ret(handleTemplateStep(mm, k))
      [] mm.step = StepFormat      -> Ret(handleFormatStep(mm, k))
      [] mm.step = StepColor       -> Ret(handleColorStep(mm, k))
      [] mm.step = StepBgColor     -> Ret(handleBgColorStep(mm, k))
      [] mm.step = StepSize        -> Ret(handleSizeStep(mm, k))
      [] mm.step = StepOutput      -> Ret(handleOutputStep(mm, k, e))
      [] mm.step = StepConfirm     -> handleConfirmStep(mm, k, e)
      [] mm.step = StepComplete    -> Ret(handleCompleteStep(mm, k, e))

\* A variant of quitKey in which q quits wherever it is pressed.
quitKeyAnywhere(mm, k) ==
    k.s \in {"ctrl+c", "q"}

\* The global quit keys of Update: ctrl+c always, q on the Complete step.
quitKey(mm, k) ==
    k.s \in {"ctrl+c", "q"} /\ (mm.step = StepComplete \/ k.s = "ctrl+c")

\* A variant of escGoesBack that leaves Esc on the template form to the form.
escGoesBackButTemplate(mm, k) ==
    k.s = "esc" /\ mm.step > StepContentType /\ mm.step < StepComplete /\ ~escYields(mm)
        /\ mm.step # StepTemplate

\* The global esc case of Update: back-navigation applies.
escGoesBack(mm, k) ==
    k.s = "esc" /\ mm.step > StepContentType /\ mm.step < StepComplete /\ ~escYields(mm)

\* The global key handlers of Update, which come before the step-specific
\* handler: h is what the handler of the current step returns for the key.
globalKeys(mm, k, h) ==
    IF quitKey(mm, k) THEN Ret([mm EXCEPT !.quitting = TRUE])
    ELSE IF escGoesBack(mm, k)
    THEN Ret(focusStep([mm EXCEPT !.step = previousStep(mm), !.err = NoError]))
    ELSE h

\* Update for a key message.
Update(mm, k, e) == globalKeys(mm, k, stepHandler(mm, k, e))

\* Update for a tea.WindowSizeMsg.
UpdateWindowSize(mm, w, h) == [mm EXCEPT !.width = w, !.height = h]

\* A variant of blinkInputs that hands the message to the colour inputs
\* whatever the mode of the colour step.
blinkInputsOnEveryColourStep(mm) ==
    CASE mm.step = StepURL -> <<"urlInput">>
      [] mm.step = StepTemplate ->
            IF mm.templateWizard = <<>> THEN <<>>
            ELSE LET tw == mm.templateWizard[1]
                     f  == FieldAt(tw.contentType, tw.focusIndex)
                 IN  IF f = "" THEN <<>> ELSE <<f>>
      [] mm.step = StepSize -> <<"sizeInput">>
      [] mm.step = StepOutput ->
            IF mm.fileBrowserActive
            THEN IF mm.filePicker.nameMode THEN <<"nameInput">> ELSE <<>>
            ELSE <<"outputInput">>
      [] mm.step = StepColor -> <<"colorInput">>
      [] mm.step = StepBgColor -> <<"bgColorInput">>
      [] OTHER -> <<>>

\* The tail of Update, reached by a message that is neither a key nor a
\* window size: the text inputs the message is handed to (the template form
\* hands it to the text field under the focus, the file picker to its name
\* input in name mode).
blinkInputs(mm) ==
    CASE mm.step = StepURL -> <<"urlInput">>
      [] mm.step = StepTemplate ->
            IF mm.templateWizard = <<>> THEN <<>>
            ELSE LET tw == mm.templateWizard[1]
                     f  == FieldAt(tw.contentType, tw.focusIndex)
                 IN  IF f = "" THEN <<>> ELSE <<f>>
      [] mm.step = StepSize -> <<"sizeInput">>
      [] mm.step = StepOutput ->
            IF mm.fileBrowserActive
            THEN IF mm.filePicker.nameMode THEN <<"nameInput">> ELSE <<>>
            ELSE <<"outputInput">>
      [] mm.step = StepColor -> IF mm.colorIndex = -1 THEN <<"colorInput">> ELSE <<>>
      [] mm.step = StepBgColor -> IF mm.bgColorIndex = -1 THEN <<"bgColorInput">> ELSE <<>>
      [] OTHER -> <<>>

\* Update for a cursor-blink message.  textinput.Update passes it on to the
\* cursor of the input: the value, the focus and the limit of the input,
\* which is what is kept of an input here, stay.  fx names the inputs that
\* were handed the message.
UpdateBlink(mm) == [m |-> mm, fx |-> <<"BlinkMsg">> \o blinkInputs(mm)]

(***************************************************************************)
(* The user and the specifications.  A profile P bounds what the user of a *)
(* specification does: the keys pressed, the texts typed or pasted into    *)
(* each kind of field (into an empty field only), how far a selection is   *)
(* moved, and the outcomes the environment produces.                       *)
(***************************************************************************)

RuneKeys ==
    {" ", "q", "n", "N", "y", "Y", "r", "c", "1", "2", "h", "j", "k", "l", "~"}

NamedKeys ==
    {"enter", "esc", "tab", "shift+tab", "up", "down", "left", "right",
     "backspace", "delete", "ctrl+u", "ctrl+c"}

Keys(names) == {IF n \in RuneKeys THEN Runes(<<n>>) ELSE Named(n) : n \in names}

ControlKeys == Keys(NamedKeys \cup RuneKeys)

\* The kind of text field a rune typed in state mm goes to, "" if none does.
TextTarget(mm) ==
    CASE mm.step = StepURL -> "url"
      [] mm.step = StepSize -> "size"
      [] mm.step = StepColor /\ mm.colorIndex = -1 -> "hex"
      [] mm.step = StepBgColor /\ mm.bgColorIndex = -1 -> "hex"
      [] mm.step = StepOutput /\ ~mm.fileBrowserActive -> "out"
      [] mm.step = StepOutput /\ mm.fileBrowserActive /\ mm.filePicker.nameMode -> "name"
      [] mm.step = StepTemplate /\ mm.templateWizard # <<>> ->
            IF FieldAt(mm.templateWizard[1].contentType, mm.templateWizard[1].focusIndex) # ""
            THEN "field" ELSE ""
      [] OTHER -> ""

\* The value of the text field TextTarget names.
TargetValue(mm) ==
    CASE mm.step = StepURL -> mm.urlInput.value
      [] mm.step = StepSize -> mm.sizeInput.value
      [] mm.step = StepColor -> mm.colorInput.value
      [] mm.step = StepBgColor -> mm.bgColorInput.value
      [] mm.step = StepOutput /\ ~mm.fileBrowserActive -> mm.outputInput.value
      [] mm.step = StepOutput -> mm.filePicker.nameInput.value
      [] mm.step = StepTemplate ->
            mm.templateWizard[1][FieldAt(mm.templateWizard[1].contentType,
                                         mm.templateWizard[1].focusIndex)].value
      [] OTHER -> <<>>

\* A selection is moved down only as far as the profile says.
WithinMoves(mm, k, P) ==
    k.s \in {"down", "j", "tab"} =>
        CASE mm.step = StepContentType -> mm.contentTypeIdx < P.maxType
          [] mm.step = StepColor /\ mm.colorIndex # -1 -> mm.colorIndex < P.maxColor
          [] mm.step = StepBgColor /\ mm.bgColorIndex # -1 -> mm.bgColorIndex < P.maxColor
          [] mm.step = StepTemplate /\ mm.templateWizard # <<>> ->
                mm.templateWizard[1].focusIndex < P.maxField
          [] mm.step = StepOutput /\ mm.fileBrowserActive /\ k.s # "tab" ->
                mm.filePicker.cursor < P.maxCursor
          [] OTHER -> TRUE

\* The keys the user may press in state mm: the profile's keys, those that
\* carry text only where no text field takes it, and the profile's texts for
\* the field in focus while it is empty.
UserKeys(mm, P) ==
    IF TextTarget(mm) = ""
    THEN {k \in P.keys : WithinMoves(mm, k, P)}
    ELSE {k \in P.keys : WithinMoves(mm, k, P) /\ k.runes = <<>>}
         \cup {Runes(t) : t \in IF TargetValue(mm) = <<>> THEN P.texts[TextTarget(mm)] ELSE {}}

\* The outcomes that a key pressed in state mm can meet.
OutcomesAt(mm, k, P) ==
    IF mm.step = StepConfirm /\ k.s \in {"enter", "y", "Y"} THEN P.outcomes
    ELSE IF mm.step = StepOutput /\ (k.s = "tab" \/ mm.fileBrowserActive)
    THEN {e \in P.outcomes : e.gen = "ok" /\ e.store /\ e.add /\ e.preview}
    ELSE {AllSucceed}

\* One key message is delivered to Update; there is one action for each step
\* the wizard can be on, which is Update with its switch on the step resolved.
KeyOnContentType(P) ==
    /\ m.step = StepContentType /\ ~m.quitting
    /\ \E k \in UserKeys(m, P) : \E e \in OutcomesAt(m, k, P) :
          LET r == globalKeys(m, k, Ret(handleContentTypeStep(m, k)))
          IN  m' = r.m /\ fx' = r.fx /\ UNCHANGED app

KeyOnURL(P) ==
    /\ m.step = StepURL /\ ~m.quitting
    /\ \E k \in UserKeys(m, P) : \E e \in OutcomesAt(m, k, P) :
          LET r == globalKeys(m, k, Ret(handleURLStep(m, k)))
          IN  m' = r.m /\ fx' = r.fx /\ UNCHANGED app

KeyOnTemplate(P) ==
    /\ m.step = StepTemplate /\ ~m.quitting
    /\ \E k \in UserKeys(m, P) : \E e \in OutcomesAt(m, k, P) :
          LET r == globalKeys(m, k, Ret(handleTemplateStep(m, k)))
          IN  m' = r.m /\ fx' = r.fx /\ UNCHANGED app

KeyOnFormat(P) ==
    /\ m.step = StepFormat /\ ~m.quitting
    /\ \E k \in UserKeys(m, P) : \E e \in OutcomesAt(m, k, P) :
          LET r == globalKeys(m, k, Ret(handleFormatStep(m, k)))
          IN  m' = r.m /\ fx' = r.fx /\ UNCHANGED app

KeyOnColor(P) ==
    /\ m.step = StepColor /\ ~m.quitting
    /\ \E k \in UserKeys(m, P) : \E e \in OutcomesAt(m, k, P) :
          LET r == globalKeys(m, k, Ret(handleColorStep(m, k)))
          IN  m' = r.m /\ fx' = r.fx /\ UNCHANGED app

KeyOnBgColor(P) ==
    /\ m.step = StepBgColor /\ ~m.quitting
    /\ \E k \in UserKeys(m, P) : \E e \in OutcomesAt(m, k, P) :
          LET r == globalKeys(m, k, Ret(handleBgColorStep(m, k)))
          IN  m' = r.m /\ fx' = r.fx /\ UNCHANGED app

KeyOnSize(P) ==
    /\ m.step = StepSize /\ ~m.quitting
    /\ \E k \in UserKeys(m, P) : \E e \in OutcomesAt(m, k, P) :
          LET r == globalKeys(m, k, Ret(handleSizeStep(m, k)))
          IN  m' = r.m /\ fx' = r.fx /\ UNCHANGED app

KeyOnOutput(P) ==
    /\ m.step = StepOutput /\ ~m.quitting
    /\ \E k \in UserKeys(m, P) : \E e \in OutcomesAt(m, k, P) :
          LET r == globalKeys(m, k, Ret(handleOutputStep(m, k, e)))
          IN  m' = r.m /\ fx' = r.fx /\ UNCHANGED app

KeyOnConfirm(P) ==
    /\ m.step = StepConfirm /\ ~m.quitting
    /\ \E k \in UserKeys(m, P) : \E e \in OutcomesAt(m, k, P) :
          LET r == globalKeys(m, k, handleConfirmStep(m, k, e))
          IN  m' = r.m /\ fx' = r.fx /\ UNCHANGED app

KeyOnComplete(P) ==
    /\ m.step = StepComplete /\ ~m.quitting
    /\ \E k \in UserKeys(m, P) : \E e \in OutcomesAt(m, k, P) :
          LET r == globalKeys(m, k, Ret(handleCompleteStep(m, k, e)))
          IN  m' = r.m /\ fx' = r.fx /\ UNCHANGED app

NextFor(P) ==
    \/ KeyOnContentType(P)
    \/ KeyOnURL(P)
    \/ KeyOnTemplate(P)
    \/ KeyOnFormat(P)
    \/ KeyOnColor(P)
    \/ KeyOnBgColor(P)
    \/ KeyOnSize(P)
    \/ KeyOnOutput(P)
    \/ KeyOnConfirm(P)
    \/ KeyOnComplete(P)

Init ==
    /\ m = New(AllSucceed)
    /\ fx = <<>>
    /\ app = <<>>

MaxType == 1

MaxCursor == 0

\* The least a user does on each step to pass it: a URL or a Wi-Fi network,
\* the first colour, the first field, the first entry.
Plain ==
    [keys      |-> Keys({"enter", "esc", "ctrl+c", "q", "n", "r"}),
     maxType   |-> ContentWiFi,
     maxColor  |-> 0,
     maxField  |-> 0,
     maxCursor |-> 0,
     texts     |-> [url   |-> {<<"q">>},
                    field |-> {<<"q">>},
                    hex   |-> {},
                    size  |-> {},
                    out   |-> {},
                    name  |-> {}],
     outcomes  |-> {AllSucceed}]

\* The walk through every step, with custom colours and every restart.
NavProfile ==
    [Plain EXCEPT
        !.keys = Keys({"enter", "esc", "ctrl+c", "q", "n", "r", "down", "c"}),
        !.maxType = MaxType,
        !.texts.hex = {<<"c", "c", "c", "c", "c", "c">>}]

Next == NextFor(NavProfile)

Spec == Init /\ [][Next]_vars

\* The sub-modes: custom-colour entry and the file browser.
SubModeProfile ==
    [Plain EXCEPT
        !.keys = Keys({"enter", "esc", "ctrl+c", "q", "n", "r", "down", "c", "tab"}),
        !.maxCursor = MaxCursor,
        !.texts.hex = {<<"c", "c", "c", "c", "c", "c">>},
        !.texts.name = {<<"q">>}]

NextSubModes == NextFor(SubModeProfile)

SpecSubModes == Init /\ [][NextSubModes]_vars

\* Text entry on the URL and Size steps, with every restart.
InputProfile ==
    [Plain EXCEPT
        !.keys = Keys({"enter", "esc", "ctrl+c", "q", "n", "r", "down", "ctrl+u"}),
        !.texts.url = {<<"q">>, <<" ">>, <<" ", "q", " ">>},
        !.texts.size = {<<"6", "4">>, <<"6", "3">>, <<"4", "0", "9", "6">>,
                        <<"4", "0", "9", "7">>, <<" ", "6", "4", " ">>, <<"6", "q">>,
                        <<"-", "6", "4">>, <<"+", "6", "4">>, <<" ">>, <<"0", "0", "9", "9">>,
                        <<"1", "0", "0", "0", "0">>}]

NextInput == NextFor(InputProfile)

SpecInput == Init /\ [][NextInput]_vars

\* Generation on the Confirm step, with every outcome of the collaborators.
ConfirmProfile ==
    [Plain EXCEPT
        !.keys = Keys({"enter", "esc", "ctrl+c", "q", "n", "r", "down", "y", "Y"}),
        !.outcomes = {e \in Outcomes : e.home /\ e.cwd /\ e.readDir}]

NextConfirm == NextFor(ConfirmProfile)

SpecConfirm == Init /\ [][NextConfirm]_vars

MaxTemplateField == 1

\* The template form of every content type.
TemplateProfile ==
    [Plain EXCEPT
        !.keys = Keys({"enter", "esc", "ctrl+c", "down", "backspace"}),
        !.maxType = Len(contentTypes) - 1,
        !.maxField = MaxTemplateField,
        !.texts.field = {<<"q">>, <<" ">>}]

NextTemplate == NextFor(TemplateProfile)

SpecTemplate == Init /\ [][NextTemplate]_vars

\* Custom colours: well-formed and malformed hexadecimal strings typed into
\* the colour fields.
ColourProfile ==
    [Plain EXCEPT
        !.keys = Keys({"enter", "esc", "ctrl+c", "down", "c", "ctrl+u"}),
        !.texts.hex = {<<"#", "1", "c", "F", "1", "c", "F">>,
                       <<" ", "c", "c", "c", "c", "c", "c">>,
                       <<"c", "c", "c", "c", "g">>,
                       <<" ">>}]

NextColour == NextFor(ColourProfile)

SpecColour == Init /\ [][NextColour]_vars

MaxBrowseCursor == 1

\* The file browser: moving through directories, choosing an entry, typing
\* a name, with directories that cannot be read.
BrowseProfile ==
    [Plain EXCEPT
        !.keys = Keys({"enter", "esc", "ctrl+c", "down", "tab", "n", "backspace"}),
        !.maxCursor = MaxBrowseCursor,
        !.texts.name = {<<"q">>, <<" ", "q">>, <<" ">>},
        !.outcomes = {AllSucceed, [AllSucceed EXCEPT !.readDir = FALSE]}]

NextBrowse == NextFor(BrowseProfile)

SpecBrowse == Init /\ [][NextBrowse]_vars

(***************************************************************************)
(* The properties.  Each is stated of the state the wizard is in and of    *)
(* every key it may receive next, so that it covers keys the profiles do   *)
(* not press.                                                              *)
(***************************************************************************)

\* Every key the properties try: the control keys, a letter no handler
\* names, and a paste of two letters.
ProbeKeys == ControlKeys \cup {Runes(<<"x">>), Runes(<<"q", "r">>)}

\* The outcomes a key pressed in state mm can meet, whatever the profile:
\* those of the collaborators that the handler of the key consults.
Meets(mm, k) ==
    IF mm.step = StepConfirm /\ k.s \in {"enter", "y", "Y"}
    THEN {e \in Outcomes : e.home /\ e.cwd /\ e.readDir}
    ELSE IF \/ mm.step = StepComplete /\ k.s = "r"
            \/ mm.step = StepOutput /\ k.s \in {"enter", "tab", "~", "backspace", "delete"}
    THEN {e \in Outcomes : e.gen = "ok" /\ e.store /\ e.add /\ e.preview}
    ELSE {AllSucceed}

Esc == Named("esc")

Enter == Named("enter")

\* The step after mm.step on the way forward, as the specification lists it.
Successor(mm) ==
    CASE mm.step = StepContentType ->
            IF SelectedType(mm) \in {ContentURL, ContentText} THEN StepURL ELSE StepTemplate
      [] mm.step = StepURL      -> StepFormat
      [] mm.step = StepTemplate -> StepFormat
      [] mm.step = StepFormat   -> StepColor
      [] mm.step = StepColor    -> StepBgColor
      [] mm.step = StepBgColor  -> StepSize
      [] mm.step = StepSize     -> StepOutput
      [] mm.step = StepOutput   -> StepConfirm
      [] mm.step = StepConfirm  -> StepComplete
      [] OTHER -> mm.step

\* The step before mm.step, as the specification lists it.
Predecessor(mm) ==
    CASE mm.step = StepURL      -> StepContentType
      [] mm.step = StepTemplate -> StepContentType
      [] mm.step = StepFormat   ->
            IF SelectedType(mm) \in {ContentURL, ContentText} THEN StepURL ELSE StepTemplate
      [] mm.step = StepColor    -> StepFormat
      [] mm.step = StepBgColor  -> StepColor
      [] mm.step = StepSize     -> StepBgColor
      [] mm.step = StepOutput   -> StepSize
      [] mm.step = StepConfirm  -> StepOutput
      [] OTHER -> mm.step

\* Custom-colour entry on a colour step, or the file browser on the Output step.
InSubMode(mm) ==
    \/ mm.step = StepColor /\ mm.colorIndex = -1
    \/ mm.step = StepBgColor /\ mm.bgColorIndex = -1
    \/ mm.step = StepOutput /\ mm.fileBrowserActive

\* C1: a single keystroke changes the step only forward to the immediate
\* successor, backward with Esc to the predecessor, from Confirm to
\* ContentType on n/N, or from Complete to ContentType on r; so no step is
\* skipped and Complete is entered only from Confirm.
C1_StepEdges ==
    \A k \in ProbeKeys : \A e \in Meets(m, k) :
        LET n == Update(m, k, e).m
        IN  n.step # m.step =>
                \/ m.step # StepComplete /\ n.step = Successor(m)
                \/ k.s = "esc" /\ n.step = Predecessor(m)
                \/ m.step = StepConfirm /\ k.s \in {"n", "N"} /\ n.step = StepContentType
                \/ m.step = StepComplete /\ k.s = "r" /\ n.step = StepContentType

\* C1: the wizard has been walked to Complete through the template form.
C1_Witness ==
    m.step = StepComplete /\ SelectedType(m) = ContentWiFi /\ m.successPath # <<>>

\* C2: Enter on the Size step with trimmed input s: empty gives size 256 and
\* the Output step; an integer within 64..4096 gives that size and the Output
\* step; anything else keeps the Size step, attaches an error and leaves the
\* configuration as it was.
C2_SizeEnter ==
    m.step = StepSize =>
        LET s == TrimSpace(m.sizeInput.value)
            n == Update(m, Enter, AllSucceed).m
        IN  IF s = <<>>
            THEN n.step = StepOutput /\ n.config.Size = 256
            ELSE IF Atoi(s).ok /\ Atoi(s).n >= 64 /\ Atoi(s).n <= 4096
            THEN n.step = StepOutput /\ n.config.Size = Atoi(s).n
            ELSE n.step = StepSize /\ n.err # NoError /\ n.config = m.config

\* C2: a size above the range was entered and refused.
C2_Witness ==
    /\ m.step = StepSize
    /\ m.err = Errorf("size must be a number between 64 and 4096", <<>>)
    /\ m.sizeInput.value = <<"4", "0", "9", "7">>

\* C3: Enter on the URL step: input that is empty after trimming keeps the
\* URL step, attaches an error and leaves the content as it was; otherwise
\* the content becomes the trimmed input, the error is cleared and the step
\* becomes Format.
C3_URLEnter ==
    m.step = StepURL =>
        LET s == TrimSpace(m.urlInput.value)
            n == Update(m, Enter, AllSucceed).m
        IN  IF s = <<>>
            THEN n.step = StepURL /\ n.err # NoError /\ n.config = m.config
            ELSE n.step = StepFormat /\ n.err = NoError /\ n.config.Content = s

\* C3: padded input was accepted and stored trimmed.
C3_Witness ==
    /\ m.step = StepFormat
    /\ m.urlInput.value = <<" ", "q", " ">>
    /\ m.config.Content = <<"q">>

\* A keystroke that took the wizard from m.step to its successor n.step.
Forward(mm, n) == n.step # mm.step /\ n.step = Successor(mm)

\* C4 (amended): outside a sub-mode Esc moves to the predecessor, a function
\* of the step and the selected content type; at ContentType and Complete it
\* changes nothing; and after a forward transition s -> s' other than into
\* Complete that does not land in a sub-mode, Esc returns to s.
C4_EscPredecessor ==
    /\ ~InSubMode(m) => Update(m, Esc, AllSucceed).m.step = Predecessor(m)
    /\ m.step \in {StepContentType, StepComplete} => Update(m, Esc, AllSucceed).m = m
    /\ \A k \in ProbeKeys : \A e \in Meets(m, k) :
          LET n == Update(m, k, e).m
          IN  Forward(m, n) /\ n.step # StepComplete /\ ~InSubMode(n)
                  => Update(n, Esc, AllSucceed).m.step = m.step

\* C4: Esc has been pressed on Format and led back to the confirmed form.
C4_Witness ==
    m.step = StepTemplate /\ m.templateWizard # <<>> /\ m.templateWizard[1].confirmed

\* C4 as stated: after any forward transition s -> s' other than into
\* Complete, Esc returns to s.
C4_EscUndoesForward ==
    \A k \in ProbeKeys : \A e \in Meets(m, k) :
        LET n == Update(m, k, e).m
        IN  Forward(m, n) /\ n.step # StepComplete
                => Update(n, Esc, AllSucceed).m.step = m.step

\* C5: in custom-colour entry and in the file browser Esc belongs to the
\* sub-mode: the step is unchanged, custom entry returns to the palette at
\* index 0, name input returns to browsing, browsing returns to manual input.
C5_SubModeEsc ==
    InSubMode(m) =>
        LET n == Update(m, Esc, AllSucceed).m
        IN  /\ n.step = m.step
            /\ m.step = StepColor => n.colorIndex = 0
            /\ m.step = StepBgColor => n.bgColorIndex = 0
            /\ m.step = StepOutput /\ m.filePicker.nameMode
                  => n.fileBrowserActive /\ ~n.filePicker.nameMode
            /\ m.step = StepOutput /\ ~m.filePicker.nameMode
                  => ~n.fileBrowserActive /\ n.outputInput.focus

\* C5: Esc has been pressed in the name input of the file browser, which is
\* browsing again with the name still in the blurred input.
C5_Witness ==
    /\ m.step = StepOutput /\ m.fileBrowserActive
    /\ ~m.filePicker.nameMode
    /\ m.filePicker.nameInput.value # <<>>

\* C6 (amended): on the TemplateForm step Esc is taken by the global
\* back-navigation, whichever field holds focus: the step becomes
\* ContentType, the error is cleared and the form never sees the key.
C6_TemplateEscGoesBack ==
    m.step = StepTemplate /\ m.templateWizard # <<>> =>
        LET n == Update(m, Esc, AllSucceed).m
        IN  /\ n.step = StepContentType
            /\ n.err = NoError
            /\ n.templateWizard = m.templateWizard

\* C6: Esc has been pressed on a form that was never confirmed.
C6_Witness ==
    /\ m.step = StepContentType
    /\ m.templateWizard # <<>>
    /\ ~m.templateWizard[1].confirmed

\* C6 as stated: on the TemplateForm step with a field in focus the global
\* handler yields on Esc and the step does not change.
C6_TemplateEscIntercepted ==
    m.step = StepTemplate /\ m.templateWizard # <<>> =>
        Update(m, Esc, AllSucceed).m.step = StepTemplate

\* The text input that takes a typed rune in state mm, "" if none does.
FocusLoc(mm) ==
    CASE mm.step = StepURL -> "urlInput"
      [] mm.step = StepSize -> "sizeInput"
      [] mm.step = StepColor /\ mm.colorIndex = -1 -> "colorInput"
      [] mm.step = StepBgColor /\ mm.bgColorIndex = -1 -> "bgColorInput"
      [] mm.step = StepOutput /\ ~mm.fileBrowserActive -> "outputInput"
      [] mm.step = StepOutput /\ mm.fileBrowserActive /\ mm.filePicker.nameMode -> "nameInput"
      [] mm.step = StepTemplate /\ mm.templateWizard # <<>> ->
            FieldAt(mm.templateWizard[1].contentType, mm.templateWizard[1].focusIndex)
      [] OTHER -> ""

InputAt(mm, loc) ==
    CASE loc \in {"urlInput", "sizeInput", "colorInput", "bgColorInput", "outputInput"} -> mm[loc]
      [] loc = "nameInput" -> mm.filePicker.nameInput
      [] OTHER -> mm.templateWizard[1][loc]

\* C7: ctrl+c quits at every step and in every sub-mode; q quits on Complete
\* only, elsewhere it goes to the handler of the step and is typed into the
\* text field in focus; and the wizard starts quitting only on ctrl+c, or on
\* q, Enter or Space on Complete.
C7_Quit ==
    ~m.quitting =>
        /\ Update(m, Named("ctrl+c"), AllSucceed).m.quitting
        /\ m.step = StepComplete => Update(m, Runes(<<"q">>), AllSucceed).m.quitting
        /\ m.step # StepComplete =>
              LET r   == Update(m, Runes(<<"q">>), AllSucceed)
                  loc == FocusLoc(m)
              IN  /\ ~r.m.quitting
                  /\ r = stepHandler(m, Runes(<<"q">>), AllSucceed)
                  /\ (loc # "" /\ InputAt(m, loc).focus
                         /\ Len(InputAt(m, loc).value) < InputAt(m, loc).CharLimit)
                        => InputAt(r.m, loc).value = Append(InputAt(m, loc).value, "q")
        /\ \A k \in ProbeKeys : \A e \in Meets(m, k) :
              Update(m, k, e).m.quitting =>
                  \/ k.s = "ctrl+c"
                  \/ m.step = StepComplete /\ k.s \in {"q", "enter", " "}

\* C7: ctrl+c has ended the wizard in custom-colour entry.
C7_Witness ==
    m.quitting /\ m.step = StepColor /\ m.colorIndex = -1

\* How often call occurs in the calls a keystroke made.
Calls(calls, call) == Cardinality({i \in 1..Len(calls) : calls[i] = call})

\* C8: Enter, y or Y on Confirm invokes the Generator exactly once on the
\* current configuration; its error keeps the Confirm step and is attached;
\* the step becomes Complete only on its success in that keystroke, and then
\* the success path is the configured output path.
C8_ConfirmGenerates ==
    /\ m.step = StepConfirm =>
          \A k \in Keys({"enter", "y", "Y"}) : \A e \in Meets(m, k) :
              LET r   == Update(m, k, e)
                  gen == Generate(m.config, e)
              IN  /\ Calls(r.fx, "Generate") = 1
                  /\ gen.err # NoError => r.m.step = StepConfirm /\ r.m.err = gen.err
                  /\ gen.err = NoError => r.m.step = StepComplete
    /\ \A k \in ProbeKeys : \A e \in Meets(m, k) :
          LET r == Update(m, k, e)
          IN  m.step # StepComplete /\ r.m.step = StepComplete =>
                  /\ m.step = StepConfirm /\ k.s \in {"enter", "y", "Y"}
                  /\ Calls(r.fx, "Generate") = 1
                  /\ Generate(m.config, e).err = NoError
                  /\ r.m.config = m.config
                  /\ r.m.successPath = r.m.config.OutputPath

\* C8: the Generator was invoked and failed; the wizard is on Confirm with
\* the error.
C8_Witness ==
    /\ m.step = StepConfirm
    /\ m.err = Errorf("failed to write output file: %w", <<>>)
    /\ Calls(fx, "Generate") = 1

\* C9: once generation has succeeded, no failure of the history store, of the
\* append or of the preview keeps the wizard from Complete or attaches an
\* error; and an append is attempted only after a successful generation.
C9_BestEffort ==
    \A k \in ProbeKeys : \A e \in Meets(m, k) :
        LET r == Update(m, k, e)
        IN  /\ (m.step = StepConfirm /\ k.s \in {"enter", "y", "Y"}
                  /\ Generate(m.config, e).err = NoError)
                => r.m.step = StepComplete /\ r.m.err = m.err
            /\ Calls(r.fx, "Store.Add") > 0 =>
                  /\ m.step = StepConfirm
                  /\ Generate(m.config, e).err = NoError
                  /\ \E i, j \in 1..Len(r.fx) :
                        i < j /\ r.fx[i] = "Generate" /\ r.fx[j] = "Store.Add"

\* C9: the wizard completed although the history store could not be opened
\* and the preview could not be rendered.
C9_Witness ==
    /\ m.step = StepComplete
    /\ m.err = NoError
    /\ Calls(fx, "Generate") = 1
    /\ Calls(fx, "Store.Add") = 0
    /\ m.qrPreview = <<>>

\* The fields of the form fail the validation of its content type.
Invalid(tw) ==
    CASE tw.contentType = ContentWiFi  -> TrimSpace(tw.wifiSSID.value) = <<>>
      [] tw.contentType = ContentVCard ->
            TrimSpace(tw.vcardFirstName.value) = <<>> /\ TrimSpace(tw.vcardLastName.value) = <<>>
      [] tw.contentType = ContentEmail -> TrimSpace(tw.emailAddress.value) = <<>>
      [] tw.contentType = ContentSMS   -> TrimSpace(tw.smsPhone.value) = <<>>
      [] OTHER -> TRUE

\* C10: Enter on the TemplateForm step while the validation of the content
\* type fails is refused: the step stays TemplateForm and the content is
\* unchanged, also on a form that was confirmed once and re-entered with Esc.
C10_InvalidEnterRefused ==
    (m.step = StepTemplate /\ m.templateWizard # <<>> /\ Invalid(m.templateWizard[1])) =>
        LET n == Update(m, Enter, AllSucceed).m
        IN  n.step = StepTemplate /\ n.config.Content = m.config.Content

\* C11: the step goes from TemplateForm to Format only on an Enter whose
\* validation succeeds, the content then being the encoding of the fields as
\* they are in the form; no other key on TemplateForm advances the step, also
\* after the form was left for Format and re-entered with Esc.
C11_OnlyValidEnterAdvances ==
    (m.step = StepTemplate /\ m.templateWizard # <<>>) =>
        \A k \in ProbeKeys :
            LET n  == Update(m, k, AllSucceed).m
                tw == m.templateWizard[1]
            IN  n.step = StepFormat =>
                    /\ k.s = "enter"
                    /\ ~Invalid(tw)
                    /\ n.config.Content = tryEncode(tw).tw.result

\* C14: in custom entry on a colour step, Enter on a text that is not empty
\* after trimming and fails to parse attaches an error, keeps the step and
\* leaves the step's colour as it was; Enter on a text that parses sets the
\* step's colour to the parsed channels, clears the error and goes to the
\* next step.
C14_CustomColourEnter ==
    \A fg \in BOOLEAN :
        LET step   == IF fg THEN StepColor ELSE StepBgColor
            index  == IF fg THEN m.colorIndex ELSE m.bgColorIndex
            input  == IF fg THEN m.colorInput ELSE m.bgColorInput
            hex    == TrimSpace(input.value)
            parsed == ParseHexColor(hex)
            n      == Update(m, Enter, AllSucceed).m
            colour(mm) == IF fg THEN mm.config.Foreground ELSE mm.config.Background
        IN  (m.step = step /\ index = -1 /\ hex # <<>>) =>
                IF parsed.ok
                THEN /\ colour(n) = parsed.color
                     /\ n.err = NoError
                     /\ n.step = step + 1
                ELSE /\ n.err # NoError
                     /\ n.step = step
                     /\ colour(n) = colour(m)

\* C14: a malformed background colour was refused after a custom foreground
\* colour was accepted.
C14_Witness ==
    /\ m.step = StepBgColor
    /\ m.bgColorIndex = -1
    /\ m.err # NoError
    /\ m.config.Foreground = RGBA(28, 241, 207)
    /\ m.config.Background = DefaultConfig.Background

\* C15: whenever a key on Confirm invokes the Generator, the configuration
\* it is given has content, a size from 64 to 4096, the format png or svg
\* and an output path, so that the Generator's validation accepts it.
C15_GeneratorPrecondition ==
    \A k \in ProbeKeys : \A e \in Meets(m, k) :
        Calls(Update(m, k, e).fx, "Generate") > 0 =>
            /\ m.step = StepConfirm
            /\ m.config.Content # <<>>
            /\ m.config.Size >= 64 /\ m.config.Size <= 4096
            /\ m.config.Format \in {FormatPNG, FormatSVG}
            /\ m.config.OutputPath # <<>>
            /\ Validate(m.config) = NoError

\* C15: the Generator was invoked on a configuration with the largest size.
C15_Witness ==
    /\ m.step = StepComplete
    /\ Calls(fx, "Generate") = 1
    /\ m.config.Size = 4096

\* name in the directory dir.
PathIn(dir, name) == IF dir = <<"/">> THEN dir \o name ELSE dir \o <<"/">> \o name

\* C17: the file picker becomes confirmed only on Enter on a file entry in
\* browse mode, the selected path being that entry in the current directory,
\* or on Enter in name mode with a name that is not empty after trimming,
\* the selected path being that name in the current directory, and on each
\* of these it does; Enter on a directory, on an empty list or on an empty
\* name and Esc in name mode do not confirm, and Esc in name mode returns to
\* browse mode.
C17_PickerConfirms ==
    (m.step = StepOutput /\ m.fileBrowserActive) =>
        \A k \in ProbeKeys : \A e \in Meets(m, k) :
            LET fp     == m.filePicker
                n      == FilePickerUpdate(fp, k, e)
                onFile == /\ ~fp.nameMode
                          /\ fp.entries # <<>>
                          /\ ~fp.entries[fp.cursor + 1].isDir
                name   == TrimSpace(fp.nameInput.value)
                named  == fp.nameMode /\ name # <<>>
            IN  /\ ~fp.confirmed
                /\ n.confirmed <=> (k.s = "enter" /\ (onFile \/ named))
                /\ (n.confirmed /\ onFile) =>
                       n.selectedPath = PathIn(fp.dir, fp.entries[fp.cursor + 1].name)
                /\ (n.confirmed /\ named) => n.selectedPath = PathIn(fp.dir, name)
                /\ (fp.nameMode /\ k.s = "esc") => ~n.nameMode

\* C17: the wizard reached Confirm with a name typed in the browser after it
\* had moved to the root.
C17_Witness ==
    /\ m.step = StepConfirm
    /\ m.config.OutputPath = <<"/", "q", ".", "p", "n", "g">>

\* The wizard as New builds it: the first step, the default configuration,
\* every selection at its first value, no error, no template form, the file
\* browser closed.
Fresh(mm) ==
    /\ mm.step = StepContentType
    /\ [mm.config EXCEPT !.OutputPath = DefaultConfig.OutputPath] = DefaultConfig
    /\ mm.contentTypeIdx = 0 /\ mm.formatIndex = 0
    /\ mm.colorIndex = 0 /\ mm.bgColorIndex = 0
    /\ mm.err = NoError
    /\ mm.templateWizard = <<>>
    /\ ~mm.fileBrowserActive
    /\ ~mm.quitting

\* C23: on Complete, r replaces the whole state by a fresh initial state;
\* Enter, q, Space and the interrupt key ctrl+c quit and change nothing else;
\* every other key, Esc included, leaves the state as it is.  So Complete is
\* left only by a reset or by quitting.
C23_CompleteKeys ==
    m.step = StepComplete =>
        \A k \in ProbeKeys : \A e \in Meets(m, k) :
            LET n == Update(m, k, e).m
            IN  CASE k.s = "r" -> n = New(e) /\ Fresh(n)
                  [] k.s \in {"enter", "q", " ", "ctrl+c"} -> n = [m EXCEPT !.quitting = TRUE]
                  [] OTHER -> n = m

\* C23: the wizard quit on Complete after a Wi-Fi code was generated.
C23_Witness ==
    /\ m.step = StepComplete
    /\ m.quitting
    /\ SelectedType(m) = ContentWiFi

\* C23 as stated: on Complete only Enter, q and Space quit, and every key
\* other than these and r leaves the state as it is.
C23_OnlyThreeKeysQuit ==
    m.step = StepComplete =>
        \A k \in ProbeKeys : \A e \in Meets(m, k) :
            LET n == Update(m, k, e).m
            IN  CASE k.s = "r" -> n = New(e) /\ Fresh(n)
                  [] k.s \in {"enter", "q", " "} -> n = [m EXCEPT !.quitting = TRUE]
                  [] OTHER -> n = m

\* The browser is open on a directory that could not be read.
ListingFailed(mm) ==
    mm.step = StepOutput /\ mm.fileBrowserActive /\ mm.filePicker.err # NoError

\* C28: a picker whose error is set has an empty list.  With the browser
\* open on it and the picker browsing (not in its name-input sub-mode),
\* Enter changes nothing: no selection is confirmed, the directory stays,
\* the wizard stays on the Output step; its keys go on working (n opens the
\* name input, Tab closes the browser); a load that succeeds afterwards, by
\* a refresh or by moving to the parent, clears the error and fills the
\* list.
C28_FailedListing ==
    /\ m.filePicker.err # NoError => m.filePicker.entries = <<>>
    /\ ListingFailed(m) =>
          /\ ~m.filePicker.nameMode =>
                /\ \A e \in Meets(m, Named("enter")) : Update(m, Named("enter"), e).m = m
                /\ Update(m, Runes(<<"n">>), AllSucceed).m.filePicker.nameMode
                /\ ~Update(m, Named("tab"), AllSucceed).m.fileBrowserActive
                /\ \A e \in Meets(m, Named("backspace")) :
                      LET n == Update(m, Named("backspace"), e).m
                      IN  (e.readDir /\ n.filePicker.dir # m.filePicker.dir) =>
                              (n.filePicker.err = NoError /\ n.filePicker.entries # <<>>)
          /\ m.filePicker.dir \in DOMAIN FileSystem =>
                LET fp == loadEntries(m.filePicker, AllSucceed)
                IN  /\ fp.err = NoError
                    /\ fp.entries = listEntries(fp.dir, FileSystem[fp.dir])

\* C28 as the specification has it, of every state in which the browser is
\* open on a directory that could not be read: Enter confirms no selection,
\* leaves the directory and leaves the wizard on the Output step.  Violated
\* in the name-input sub-mode, where Enter on a name confirms it.
C28_EnterNeverConfirms ==
    ListingFailed(m) =>
        \A e \in Meets(m, Named("enter")) :
            LET n == Update(m, Named("enter"), e).m
            IN  /\ n.step = StepOutput
                /\ ~n.filePicker.confirmed
                /\ n.filePicker.dir = m.filePicker.dir

\* C28: the browser is open and browsing a directory that could not be read.
C28_Witness ==
    /\ ListingFailed(m)
    /\ ~m.filePicker.nameMode
    /\ m.filePicker.entries = <<>>

(***************************************************************************)
(* The wizard with the events that are not keys: the terminal is resized   *)
(* and the cursor blinks, between the keys of a user who visits every      *)
(* sub-mode.                                                               *)
(***************************************************************************)

WindowSizes == {<<80, 24>>, <<120, 40>>}

EventProfile ==
    [Plain EXCEPT
        !.keys = Keys({"enter", "down", "c", "tab", "n"}),
        !.maxType = ContentWiFi,
        !.maxField = 2,
        !.texts.hex = {<<"c", "c", "c", "c", "c", "c">>},
        !.texts.name = {<<"q">>}]

\* A tea.WindowSizeMsg arrives.
WindowResized ==
    /\ ~m.quitting
    /\ \E s \in WindowSizes :
          /\ m' = UpdateWindowSize(m, s[1], s[2])
          /\ fx' = <<"WindowSizeMsg">>
    /\ UNCHANGED app

\* The cursor blinks.
BlinkTick ==
    /\ ~m.quitting
    /\ m' = UpdateBlink(m).m
    /\ fx' = UpdateBlink(m).fx
    /\ UNCHANGED app

NextEvents == NextFor(EventProfile) \/ WindowResized \/ BlinkTick

SpecEvents == Init /\ [][NextEvents]_vars

\* The text input of the wizard that goes by a name.
InputNamed(mm, name) ==
    CASE name = "nameInput" -> mm.filePicker.nameInput
      [] name \in TextFieldNames -> mm.templateWizard[1][name]
      [] OTHER -> mm[name]

\* The inputs that belong to a step.
InputsOfStep(mm) ==
    CASE mm.step = StepURL -> {"urlInput"}
      [] mm.step = StepTemplate -> TextFieldNames
      [] mm.step = StepSize -> {"sizeInput"}
      [] mm.step = StepOutput -> {"outputInput", "nameInput"}
      [] mm.step = StepColor -> {"colorInput"}
      [] mm.step = StepBgColor -> {"bgColorInput"}
      [] OTHER -> {}

\* C30: a resize or a blink changes neither the step, the configuration, a
\* selection index, the file-browser flag, a sub-mode flag, the error nor
\* the value of an input; a resize changes the stored width and height and
\* nothing else; a blink is handed to one input at most, an input of the
\* current step, on a colour step only in custom-entry mode, and it leaves
\* width and height alone.
C30_NonKeyEvents ==
    [][(fx' # <<>> /\ fx'[1] \in {"WindowSizeMsg", "BlinkMsg"}) =>
          /\ m'.step = m.step
          /\ m'.config = m.config
          /\ m'.contentTypeIdx = m.contentTypeIdx /\ m'.formatIndex = m.formatIndex
          /\ m'.colorIndex = m.colorIndex /\ m'.bgColorIndex = m.bgColorIndex
          /\ m'.fileBrowserActive = m.fileBrowserActive
          /\ m'.filePicker = m.filePicker
          /\ m'.templateWizard = m.templateWizard
          /\ m'.err = m.err
          /\ m'.quitting = m.quitting
          /\ fx'[1] = "WindowSizeMsg" =>
                /\ <<m'.width, m'.height>> \in WindowSizes
                /\ m' = [m EXCEPT !.width = m'.width, !.height = m'.height]
          /\ fx'[1] = "BlinkMsg" =>
                /\ m'.width = m.width /\ m'.height = m.height
                /\ Len(fx') <= 2
                /\ \A i \in 2..Len(fx') :
                      /\ fx'[i] \in InputsOfStep(m)
                      /\ InputNamed(m', fx'[i]) = InputNamed(m, fx'[i])
                /\ m.step = StepColor => (Len(fx') = 2 <=> m.colorIndex = -1)
                /\ m.step = StepBgColor => (Len(fx') = 2 <=> m.bgColorIndex = -1)
    ]_vars

\* C30: a blink reached the colour input in custom-entry mode after the
\* terminal had been resized.
C30_Witness ==
    /\ m.step = StepColor /\ m.colorIndex = -1
    /\ m.width = 120 /\ m.height = 40
    /\ fx = <<"BlinkMsg", "colorInput">>

\* C31: a key that changes the step leaves no error behind: whatever the key
\* and whatever the collaborators answer, if the step of the state returned
\* differs from the step of the state the key was pressed in, the error of
\* the state returned is nil.
C31_StepChangeClearsError ==
    \A k \in ProbeKeys : \A e \in Meets(m, k) :
        LET n == Update(m, k, e).m
        IN  n.step # m.step => n.err = NoError

\* C32: in every state the wizard returns the picker is not confirmed, the
\* browser is open on the Output step only and the name input is open in
\* an open browser only.  A key on which the picker confirms is consumed at
\* once: the state returned has the selected path, with the extension of
\* the format, as its output path, is on Confirm with the browser closed,
\* and its picker has no selection, is not confirmed and is not in name
\* mode.
C32_PickerPolling ==
    /\ ~m.filePicker.confirmed
    /\ m.fileBrowserActive => m.step = StepOutput
    /\ m.filePicker.nameMode => m.fileBrowserActive
    /\ (m.step = StepOutput /\ m.fileBrowserActive) =>
          \A k \in ProbeKeys : \A e \in Meets(m, k) :
              LET fp == FilePickerUpdate(m.filePicker, k, e)
                  n  == Update(m, k, e).m
                  ext == <<".">> \o m.config.Format
              IN  (k.s \notin {"tab", "esc", "ctrl+c"} /\ fp.confirmed) =>
                      /\ n.config.OutputPath =
                            TrimSuffix(fp.selectedPath, Ext(fp.selectedPath)) \o ext
                      /\ [n.config EXCEPT !.OutputPath = m.config.OutputPath] = m.config
                      /\ n.step = StepConfirm
                      /\ ~n.fileBrowserActive
                      /\ ~n.filePicker.confirmed
                      /\ n.filePicker.selectedPath = <<>>
                      /\ ~n.filePicker.nameMode

\* C32: the wizard is on Confirm with a file of the home directory that was
\* chosen in the browser.
C32_Witness ==
    /\ m.step = StepConfirm
    /\ m.config.OutputPath = <<"/", "h", "/", "b", ".", "p", "n", "g">>
    /\ ~m.fileBrowserActive
    /\ m.filePicker.selectedPath = <<>>

(***************************************************************************)
(* The format chosen over again: the user goes back from Confirm, picks    *)
(* PNG or SVG by Enter or by 1 and 2, and comes forward with output names  *)
(* that have no extension, the extension of a format, or another one.      *)
(***************************************************************************)

FormatProfile ==
    [Plain EXCEPT
        !.keys = Keys({"enter", "esc", "down", "right", "left", "1", "2", "n", "tab"}),
        !.texts.out = {<<"q", ".", "s", "v", "g">>, <<"q", ".", "p", "n", "g">>, <<"q", ".", "g", "z">>},
        !.texts.name = {<<"q", ".", "s", "v", "g">>},
        !.outcomes = {AllSucceed, [AllSucceed EXCEPT !.gen = "write"]}]

NextFormat == NextFor(FormatProfile)

SpecFormat == Init /\ [][NextFormat]_vars

\* C33: on Confirm and on Complete the output path ends with a dot and the
\* format of the configuration, whatever the way there: back from Confirm
\* to Format, another format chosen by Enter or by 1 and 2, forward again.
C33_ExtensionFollowsFormat ==
    m.step \in {StepConfirm, StepComplete} =>
        HasSuffix(m.config.OutputPath, <<".">> \o m.config.Format)

\* C33: the wizard completed with SVG after it had been on Confirm with a
\* path that ended in .png, the name typed being q.png.
C33_Witness ==
    /\ m.step = StepComplete
    /\ m.config.Format = FormatSVG
    /\ m.outputInput.value = <<"q", ".", "p", "n", "g">>
    /\ m.config.OutputPath = <<"/", "w", "/", "q", ".", "s", "v", "g">>

(***************************************************************************)
(* Every selection moved to its end: the six content types, the twelve     *)
(* colours of both colour steps, the seven fields of the longest form and  *)
(* the rows of the browser.  Nothing is typed into a form, so that the     *)
(* wizard goes on from the Content step with URL and Text only.            *)
(***************************************************************************)

IndexProfile ==
    [Plain EXCEPT
        !.keys = Keys({"enter", "down", " ", "c", "tab"}),
        !.maxType = Len(contentTypes) - 1,
        !.maxColor = Len(colorNames) - 1,
        !.maxField = 6,
        !.maxCursor = 3,
        !.texts.field = {}]

NextIndices == NextFor(IndexProfile)

SpecIndices == Init /\ [][NextIndices]_vars

\* The selection indices of mm are in range.
IndicesInRange(mm) ==
    /\ mm.contentTypeIdx \in 0..5
    /\ mm.formatIndex \in {0, 1}
    /\ mm.colorIndex \in -1..11
    /\ mm.bgColorIndex \in -1..11
    /\ mm.templateWizard # <<>> =>
          LET tw == mm.templateWizard[1]
              n  == CASE tw.contentType = ContentWiFi -> 4
                      [] tw.contentType = ContentVCard -> 7
                      [] tw.contentType = ContentEmail -> 3
                      [] tw.contentType = ContentSMS -> 2
                      [] OTHER -> 0
          IN  tw.wifiEncIndex \in 0..2 /\ tw.focusIndex \in 0..(n - 1)
    /\ mm.filePicker.entries # <<>> =>
          mm.filePicker.cursor \in 0..(Len(mm.filePicker.entries) - 1)

\* C35: the selection indices are in range in every state and in the state
\* every key leads to; a palette is indexed (Enter or Space on a colour
\* step outside custom mode) with an index of 0..11 only, and in custom
\* mode, index -1, Space picks no colour; the entry list of the picker is
\* indexed (Enter while browsing a list that is not empty) with a cursor
\* below its length only.
C35_IndicesInRange ==
    /\ IndicesInRange(m)
    /\ \A k \in ProbeKeys : \A e \in Meets(m, k) :
          LET n == Update(m, k, e).m
          IN  /\ IndicesInRange(n)
              /\ (m.step = StepColor /\ k.s \in {"enter", " "} /\ n.step = StepBgColor
                      /\ m.colorIndex # -1) =>
                    (m.colorIndex \in 0..11 /\
                     n.config.Foreground = PredefinedColors[colorNames[m.colorIndex + 1]])
              /\ (m.step = StepBgColor /\ k.s \in {"enter", " "} /\ n.step = StepSize
                      /\ m.bgColorIndex # -1) =>
                    (m.bgColorIndex \in 0..11 /\
                     n.config.Background = PredefinedColors[colorNames[m.bgColorIndex + 1]])
              /\ (m.step = StepColor /\ m.colorIndex = -1 /\ k.s = " ") =>
                    (n.config = m.config /\ n.step = m.step)
              /\ (m.step = StepBgColor /\ m.bgColorIndex = -1 /\ k.s = " ") =>
                    (n.config = m.config /\ n.step = m.step)
              /\ (m.step = StepOutput /\ m.fileBrowserActive /\ ~m.filePicker.nameMode
                      /\ k.s = "enter" /\ m.filePicker.entries # <<>>) =>
                    m.filePicker.cursor < Len(m.filePicker.entries)

\* C35: the last content type, the last colour on both colour steps and the
\* last row of the browser were selected.
C35_Witness ==
    /\ m.contentTypeIdx = 5
    /\ m.colorIndex = 11 /\ m.bgColorIndex = 11
    /\ m.step = StepOutput /\ m.fileBrowserActive
    /\ m.filePicker.cursor = 3

\* The state after Esc was pressed in mm up to n times, stopping on the
\* ContentType step.
RECURSIVE EscRun(_, _)
EscRun(mm, n) ==
    IF n = 0 \/ mm.step = StepContentType THEN mm
    ELSE EscRun(Update(mm, Named("esc"), AllSucceed).m, n - 1)

\* The sub-modes that are open on the step of mm: the browser and, inside
\* it, the name input; custom-colour entry.
SubModeLevel(mm) ==
    CASE mm.step = StepOutput ->
            (IF mm.fileBrowserActive THEN 1 ELSE 0)
                + (IF mm.fileBrowserActive /\ mm.filePicker.nameMode THEN 1 ELSE 0)
      [] mm.step = StepColor -> IF mm.colorIndex = -1 THEN 1 ELSE 0
      [] mm.step = StepBgColor -> IF mm.bgColorIndex = -1 THEN 1 ELSE 0
      [] OTHER -> 0

\* C36: in a state that is not quitting and whose step is after ContentType
\* and before Complete, Esc pressed over and over reaches the ContentType
\* step within 10 presses; one Esc closes one sub-mode (name input, file
\* browser, custom-colour entry) and keeps the step when a sub-mode is
\* open, and moves to the step before otherwise; it never moves forward.
C36_EscReachesStart ==
    (~m.quitting /\ m.step > StepContentType /\ m.step < StepComplete) =>
        LET n == Update(m, Named("esc"), AllSucceed).m
        IN  /\ EscRun(m, 10).step = StepContentType
            /\ ~n.quitting
            /\ IF SubModeLevel(m) > 0
               THEN n.step = m.step /\ SubModeLevel(n) = SubModeLevel(m) - 1
               ELSE /\ n.step < m.step
                    /\ n.step = CASE m.step \in {StepURL, StepTemplate} -> StepContentType
                                  [] m.step = StepFormat ->
                                        IF m.contentTypeIdx \in {0, 5} THEN StepURL
                                        ELSE StepTemplate
                                  [] OTHER -> m.step - 1

\* C36: Esc has closed the name input of the browser, and nine more are
\* needed to reach the ContentType step, both colour steps being in
\* custom-colour entry on the way.
C36_Witness ==
    /\ m.step = StepOutput /\ m.fileBrowserActive /\ ~m.filePicker.nameMode
    /\ m.filePicker.nameInput.value # <<>>
    /\ ~m.quitting
    /\ EscRun(m, 8).step # StepContentType
    /\ EscRun(m, 9).step = StepContentType

(***************************************************************************)
(* Functions of the program applied on their own.  app holds the function, *)
(* its arguments, drawn from a bounded set in the initial state, and the   *)
(* values returned so far.                                                 *)
(***************************************************************************)

\* Every string over chars of at most n characters.
StringsUpTo(chars, n) == UNION {[1..k -> chars] : k \in 0..n}

MaxPathLen == 4

\* Paths of short names, dots and separators, and the two of the specification.
PathInputs ==
    StringsUpTo({"n", ".", "/"}, MaxPathLen)
        \cup {<<"n", "o", "t", "e", "s">>, <<"n", "o", "t", "e", "s", ".", "p", "n", "g">>}

\* The applications of SetOutputPath: a path and the format chosen.
PathApps ==
    [fn : {"SetOutputPath"}, args : [path : PathInputs, format : {FormatPNG, FormatSVG}],
     out : {<<>>}]

\* c.SetOutputPath(path), then c.SetOutputPath(c.OutputPath).
ApplySetOutputPath ==
    /\ app.fn = "SetOutputPath"
    /\ Len(app.out) < 2
    /\ LET c    == [DefaultConfig EXCEPT !.Format = app.args.format]
           path == IF app.out = <<>> THEN app.args.path ELSE app.out[Len(app.out)]
       IN  app' = [app EXCEPT !.out = Append(@, SetOutputPath(c, path).OutputPath)]
    /\ UNCHANGED <<m, fx>>

\* The dots of the final element of path.
FinalDots(path) ==
    {i \in 1..Len(path) : path[i] = "." /\ \A j \in i..Len(path) : path[j] # "/"}

\* path with the last extension of its final element, if it has one, replaced
\* by "." and the format, and with them appended if it has none.
WithExtension(path, format) ==
    IF FinalDots(path) = {} THEN path \o <<".">> \o format
    ELSE SubSeq(path, 1, (CHOOSE i \in FinalDots(path) : \A j \in FinalDots(path) : j <= i) - 1)
            \o <<".">> \o format

\* C12: setting the output path appends "." and the format to a path whose
\* final element has no extension and replaces the last extension of one that
\* has; notes and notes.png with SVG both give notes.svg; and setting the
\* result again changes nothing.
C12_ExtensionEnforced ==
    (app # <<>> /\ app.fn = "SetOutputPath" /\ app.out # <<>>) =>
        /\ app.out[1] = WithExtension(app.args.path, app.args.format)
        /\ (app.args.format = FormatSVG
              /\ app.args.path \in {<<"n", "o", "t", "e", "s">>,
                               <<"n", "o", "t", "e", "s", ".", "p", "n", "g">>})
              => app.out[1] = <<"n", "o", "t", "e", "s", ".", "s", "v", "g">>
        /\ Len(app.out) = 2 => app.out[2] = app.out[1]

\* C12: notes.png was set twice with SVG chosen.
C12_Witness ==
    /\ app # <<>> /\ app.fn = "SetOutputPath"
    /\ app.args.path = <<"n", "o", "t", "e", "s", ".", "p", "n", "g">>
    /\ app.args.format = FormatSVG
    /\ Len(app.out) = 2

MaxHexLen == 7

\* Strings of a digit, a lower-case and an upper-case hexadecimal letter and a
\* letter that is not hexadecimal, after no "#", one or two.
HexInputs ==
    {pre \o body : pre \in {<<>>, <<"#">>, <<"#", "#">>},
                   body \in StringsUpTo({"1", "c", "F", "g"}, MaxHexLen)}

\* The applications of ParseHexColor, and of ColorToHex on what it returns.
HexApps == [fn : {"ParseHexColor"}, args : [hex : HexInputs], out : {<<>>}]

\* color, err := ParseHexColor(hex)
ApplyParseHexColor ==
    /\ app.fn = "ParseHexColor"
    /\ app.out = <<>>
    /\ app' = [app EXCEPT !.out = <<ParseHexColor(app.args.hex)>>]
    /\ UNCHANGED <<m, fx>>

\* ColorToHex(color), when err is nil.
ApplyColorToHex ==
    /\ app.fn = "ParseHexColor"
    /\ Len(app.out) = 1
    /\ app.out[1].ok
    /\ app' = [app EXCEPT !.out = Append(@, ColorToHex(app.out[1].color))]
    /\ UNCHANGED <<m, fx>>

\* The hexadecimal digits, each with its upper case.
UpperHex ==
    [c \in {"0", "1", "2", "3", "4", "5", "6", "7", "8", "9",
            "a", "b", "c", "d", "e", "f", "A", "B", "C", "D", "E", "F"} |->
        CASE c = "a" -> "A" [] c = "b" -> "B" [] c = "c" -> "C"
          [] c = "d" -> "D" [] c = "e" -> "E" [] c = "f" -> "F" [] OTHER -> c]

\* s is six hexadecimal digits.
SixHexDigits(s) == Len(s) = 6 /\ \A i \in 1..6 : s[i] \in DOMAIN UpperHex

\* s is six hexadecimal digits, optionally preceded by one "#".
WellFormedHex(s) ==
    \/ SixHexDigits(s)
    \/ Len(s) = 7 /\ s[1] = "#" /\ SixHexDigits(SubSeq(s, 2, 7))

\* C13: ParseHexColor succeeds exactly on six hexadecimal digits optionally
\* preceded by one "#", and ColorToHex of what it returns is "#" followed by
\* the six digits in upper case; on every other string it returns an error.
C13_HexRoundTrip ==
    (app # <<>> /\ app.fn = "ParseHexColor" /\ app.out # <<>>) =>
        LET s      == app.args.hex
            digits == SubSeq(s, Len(s) - 5, Len(s))
        IN  /\ app.out[1].ok <=> WellFormedHex(s)
            /\ Len(app.out) = 2 =>
                   app.out[2] = <<"#">> \o [i \in 1..6 |-> UpperHex[digits[i]]]

\* C13: a string of mixed case after one "#" was parsed and formatted again.
C13_Witness ==
    /\ app # <<>> /\ app.fn = "ParseHexColor"
    /\ app.args.hex = <<"#", "1", "c", "F", "c", "c", "1">>
    /\ Len(app.out) = 2

MaxEntries == 5

\* The names a directory may hold, in the order os.ReadDir returns them.
EntryNames ==
    <<<<".", "a">>, <<"a">>, <<"a", ".", "b">>, <<"a", "b">>, <<"b">>, <<"b", "a">>>>

\* What os.ReadDir returns for a directory that holds each of the first
\* MaxEntries names as a file, as a directory or not at all.
ReadDirResults ==
    LET names == SubSeq(EntryNames, 1, MaxEntries)
        listing(kind) ==
            LET present == SelectSeq(names, LAMBDA n :
                               kind[CHOOSE i \in 1..Len(names) : names[i] = n] # "none")
            IN  [i \in 1..Len(present) |->
                    DirEntry(present[i],
                             kind[CHOOSE j \in 1..Len(names) : names[j] = present[i]] = "dir")]
    IN  {listing(kind) : kind \in [1..Len(names) -> {"none", "file", "dir"}]}

\* The applications of loadEntries: a directory and what os.ReadDir returns.
ListingApps ==
    [fn : {"loadEntries"}, args : [dir : {<<"/">>, WorkDir}, dirEntries : ReadDirResults],
     out : {<<>>}]

\* fp.loadEntries() where os.ReadDir succeeds.
ApplyLoadEntries ==
    /\ app.fn = "loadEntries"
    /\ app.out = <<>>
    /\ app' = [app EXCEPT !.out = <<listEntries(app.args.dir, app.args.dirEntries)>>]
    /\ UNCHANGED <<m, fx>>

\* C16: after a successful load the list is the parent entry ".." first
\* exactly when the directory is not the root, then the directories by
\* ascending name, then the files by ascending name; no entry listed from
\* the directory begins with "." and every entry of the directory that is
\* not hidden is listed exactly once.
C16_Listing ==
    (app # <<>> /\ app.fn = "loadEntries" /\ app.out # <<>>) =>
        LET entries   == app.out[1]
            hasParent == entries # <<>> /\ entries[1] = DirEntry(<<".", ".">>, TRUE)
            rest      == IF hasParent THEN Tail(entries) ELSE entries
            given     == app.args.dirEntries
        IN  /\ hasParent <=> app.args.dir # <<"/">>
            /\ \A i, j \in 1..Len(rest) :
                   i < j => /\ ~(~rest[i].isDir /\ rest[j].isDir)
                            /\ rest[i].isDir = rest[j].isDir
                                  => StrLess(rest[i].name, rest[j].name)
            /\ \A i \in 1..Len(rest) : rest[i].name[1] # "."
            /\ {rest[i] : i \in 1..Len(rest)}
                  = {given[i] : i \in {j \in 1..Len(given) : given[j].name[1] # "."}}

\* C16: a directory below the root with a hidden entry, a file and two
\* directories whose names follow the file's was listed.
C16_Witness ==
    /\ app # <<>> /\ app.fn = "loadEntries"
    /\ app.args.dir = WorkDir
    /\ app.args.dirEntries = <<DirEntry(<<".", "a">>, TRUE), DirEntry(<<"a">>, FALSE),
                               DirEntry(<<"a", "b">>, TRUE), DirEntry(<<"b">>, TRUE)>>
    /\ app.out # <<>>

MaxWiFiLen == 2

\* Field values of the characters escapeWiFiField escapes and one it does
\* not.
WiFiFields == StringsUpTo({"\\", ";", ":", "\"", "a"}, MaxWiFiLen)

\* The applications of WiFiData.Encode, the network My;Net with the password
\* p@ss among them.
WiFiApps ==
    [fn : {"WiFiData.Encode"},
     args : [SSID : WiFiFields, Password : WiFiFields,
             Encryption : {WiFiWPA, WiFiWEP, WiFiNone}, Hidden : BOOLEAN]
            \cup {[SSID |-> <<"M", "y", ";", "N", "e", "t">>, Password |-> <<"p", "@", "s", "s">>,
                   Encryption |-> WiFiWPA, Hidden |-> FALSE]},
     out : {<<>>}]

\* w.Encode()
ApplyWiFiEncode ==
    /\ app.fn = "WiFiData.Encode"
    /\ app.out = <<>>
    /\ app' = [app EXCEPT !.out = <<WiFiEncode(app.args)>>]
    /\ UNCHANGED <<m, fx>>

\* s with each character c replaced by table[c] where the table has it.
RECURSIVE EachChar(_, _)
EachChar(s, table) ==
    IF s = <<>> THEN <<>>
    ELSE (IF Head(s) \in DOMAIN table THEN table[Head(s)] ELSE <<Head(s)>>)
            \o EachChar(Tail(s), table)

\* Backslash, ";", ":" and the double quote, each after one backslash.
WiFiEscapes == [c \in {"\\", ";", ":", "\""} |-> <<"\\", c>>]

\* C18: the Wi-Fi encoding is WIFI:T: and the encryption, ;S: and the escaped
\* SSID, ";", then P:, the escaped password and ";" exactly when the
\* encryption is not nopass, then H:true; exactly when the network is hidden,
\* then ";"; escaping puts one backslash before every backslash, ";", ":"
\* and double quote and changes nothing else.  The network My;Net with the
\* password p@ss, WPA and not hidden gives WIFI:T:WPA;S:My\;Net;P:p@ss;;.
C18_WiFiEncoding ==
    (app # <<>> /\ app.fn = "WiFiData.Encode" /\ app.out # <<>>) =>
        LET w == app.args
        IN  /\ app.out[1] =
                   <<"W", "I", "F", "I", ":", "T", ":">> \o w.Encryption \o <<";", "S", ":">>
                       \o EachChar(w.SSID, WiFiEscapes) \o <<";">>
                       \o (IF w.Encryption # WiFiNone
                           THEN <<"P", ":">> \o EachChar(w.Password, WiFiEscapes) \o <<";">>
                           ELSE <<>>)
                       \o (IF w.Hidden THEN <<"H", ":", "t", "r", "u", "e", ";">> ELSE <<>>)
                       \o <<";">>
            /\ (w.SSID = <<"M", "y", ";", "N", "e", "t">> /\ w.Password = <<"p", "@", "s", "s">>)
                   => app.out[1] = <<"W", "I", "F", "I", ":", "T", ":", "W", "P", "A", ";", "S", ":", "M", "y", "\\", ";", "N", "e", "t", ";", "P", ":", "p", "@", "s", "s", ";", ";">>

\* C18: the network of the example was encoded.
C18_Witness ==
    /\ app # <<>> /\ app.fn = "WiFiData.Encode"
    /\ app.args.SSID = <<"M", "y", ";", "N", "e", "t">>
    /\ app.args.Password = <<"p", "@", "s", "s">>
    /\ app.out = <<<<"W", "I", "F", "I", ":", "T", ":", "W", "P", "A", ";", "S", ":", "M", "y", "\\", ";", "N", "e", "t", ";", "P", ":", "p", "@", "s", "s", ";", ";">>>>

MaxNameLen == 2

\* The contacts: names of a letter and spaces, every other field empty, a
\* letter or a space.
VCardApps ==
    LET names  == StringsUpTo({"a", " "}, MaxNameLen)
        others == {<<>>, <<"b">>, <<" ">>}
    IN  [fn : {"VCardData.Encode"},
         args : [FirstName : names, LastName : names, Phone : others, Email : others,
                 Organization : others, Title : others, URL : others],
         out : {<<>>}]

\* The contact form with the fields of v typed in.
VCardForm(v) ==
    [NewTemplateWizard(ContentVCard) EXCEPT
        !.vcardFirstName = SetValue(@, v.FirstName),
        !.vcardLastName  = SetValue(@, v.LastName),
        !.vcardPhone     = SetValue(@, v.Phone),
        !.vcardEmail     = SetValue(@, v.Email),
        !.vcardOrg       = SetValue(@, v.Organization),
        !.vcardTitle     = SetValue(@, v.Title),
        !.vcardURL       = SetValue(@, v.URL)]

\* v.Encode()
ApplyVCardEncode ==
    /\ app.fn = "VCardData.Encode"
    /\ app.out = <<>>
    /\ app' = [app EXCEPT !.out = <<VCardEncode(app.args)>>]
    /\ UNCHANGED <<m, fx>>

\* tw.tryEncode() on the contact form that holds the same fields.
ApplyTryEncodeVCard ==
    /\ app.fn = "VCardData.Encode"
    /\ Len(app.out) = 1
    /\ LET r == tryEncode(VCardForm(app.args))
       IN  app' = [app EXCEPT !.out = Append(@, [ok |-> r.ok, result |-> r.tw.result])]
    /\ UNCHANGED <<m, fx>>

\* The lines of the vCard of v, in their order.
VCardLines(v) ==
    LET named == TrimSpace(v.FirstName \o <<" ">> \o v.LastName) # <<>>
        line(tag, val) == IF val # <<>> THEN <<tag \o val>> ELSE <<>>
    IN  <<<<"B", "E", "G", "I", "N", ":", "V", "C", "A", "R", "D">>, <<"V", "E", "R", "S", "I", "O", "N", ":", "3", ".", "0">>>>
            \o (IF named
                THEN <<<<"F", "N", ":">> \o TrimSpace(v.FirstName \o <<" ">> \o v.LastName),
                       <<"N", ":">> \o v.LastName \o <<";">> \o v.FirstName \o <<";", ";", ";">>>>
                ELSE <<>>)
            \o line(<<"O", "R", "G", ":">>, v.Organization)
            \o line(<<"T", "I", "T", "L", "E", ":">>, v.Title)
            \o line(<<"T", "E", "L", ";", "T", "Y", "P", "E", "=", "C", "E", "L", "L", ":">>, v.Phone)
            \o line(<<"E", "M", "A", "I", "L", ":">>, v.Email)
            \o line(<<"U", "R", "L", ":">>, v.URL)
            \o <<<<"E", "N", "D", ":", "V", "C", "A", "R", "D">>>>

\* The lines, each followed by CR and LF.
RECURSIVE Terminated(_)
Terminated(lines) ==
    IF lines = <<>> THEN <<>> ELSE Head(lines) \o <<"\r", "\n">> \o Terminated(Tail(lines))

\* C19: the contact encoding is the lines BEGIN:VCARD, VERSION:3.0, FN, N,
\* ORG, TITLE, TEL;TYPE=CELL, EMAIL, URL, END:VCARD in this order, each ended
\* by CR LF, with ORG, TITLE, TEL, EMAIL and URL present exactly when their
\* field is not empty; the form accepts a contact exactly when its first or
\* last name is not blank, and the encoding of a contact it accepts has the
\* FN and N lines.
C19_VCardEncoding ==
    (app # <<>> /\ app.fn = "VCardData.Encode" /\ app.out # <<>>) =>
        LET v       == app.args
            trimmed == [f \in DOMAIN v |-> TrimSpace(v[f])]
            lines   == VCardLines(trimmed)
        IN  /\ app.out[1] = Terminated(VCardLines(v))
            /\ Len(app.out) = 2 =>
                  /\ app.out[2].ok <=> (trimmed.FirstName # <<>> \/ trimmed.LastName # <<>>)
                  /\ app.out[2].ok =>
                        /\ app.out[2].result = Terminated(lines)
                        /\ HasPrefix(lines[3], <<"F", "N", ":">>)
                        /\ HasPrefix(lines[4], <<"N", ":">>)

\* C19: the form accepted a contact that has a last name only and a blank
\* telephone number.
C19_Witness ==
    /\ app # <<>> /\ app.fn = "VCardData.Encode"
    /\ TrimSpace(app.args.FirstName) = <<>>
    /\ app.args.LastName = <<" ", "a">>
    /\ app.args.Phone = <<" ">>
    /\ app.args.Email = <<"b">>
    /\ Len(app.out) = 2
    /\ app.out[2].ok

MaxEmailLen == 2

\* Subjects and bodies: strings of "%", a space, "&" and a letter, and each
\* of the other characters uriEncode replaces.
EmailTexts ==
    StringsUpTo({"%", " ", "&", "a"}, MaxEmailLen) \cup {<<"=">>, <<"#">>, <<"\n">>}

\* The applications of EmailData.Encode.
EmailApps ==
    [fn : {"EmailData.Encode"},
     args : [Address : {<<"a">>, <<"a", "@", "b">>}, Subject : EmailTexts, Body : EmailTexts],
     out : {<<>>}]

\* e.Encode()
ApplyEmailEncode ==
    /\ app.fn = "EmailData.Encode"
    /\ app.out = <<>>
    /\ app' = [app EXCEPT !.out = <<EmailEncode(app.args)>>]
    /\ UNCHANGED <<m, fx>>

\* The table of the characters that are replaced in a mailto parameter.
URIEscapes ==
    ("%" :> <<"%", "2", "5">>) @@ (" " :> <<"%", "2", "0">>) @@ ("&" :> <<"%", "2", "6">>)
        @@ ("=" :> <<"%", "3", "D">>) @@ ("#" :> <<"%", "2", "3">>)
        @@ ("\n" :> <<"%", "0", "A">>)

\* C20: the e-mail encoding is mailto: and the address; then, unless subject
\* and body are both empty, "?" and the parameters joined by "&": subject=
\* and the encoded subject when the subject is not empty, then body= and the
\* encoded body when the body is not empty.  The encoding replaces each
\* character of the input by its entry in the table and leaves every other
\* character, so a "%" the table has put in is not replaced again.
C20_EmailEncoding ==
    (app # <<>> /\ app.fn = "EmailData.Encode" /\ app.out # <<>>) =>
        LET e       == app.args
            subject == <<"s", "u", "b", "j", "e", "c", "t", "=">> \o EachChar(e.Subject, URIEscapes)
            body    == <<"b", "o", "d", "y", "=">> \o EachChar(e.Body, URIEscapes)
            query   == CASE e.Subject # <<>> /\ e.Body # <<>> -> <<"?">> \o subject \o <<"&">> \o body
                         [] e.Subject # <<>> /\ e.Body = <<>> -> <<"?">> \o subject
                         [] e.Subject = <<>> /\ e.Body # <<>> -> <<"?">> \o body
                         [] OTHER -> <<>>
        IN  app.out[1] = <<"m", "a", "i", "l", "t", "o", ":">> \o e.Address \o query

\* C20: a message whose subject has a "%" and whose body has a space and
\* an "&" was encoded.
C20_Witness ==
    /\ app # <<>> /\ app.fn = "EmailData.Encode"
    /\ app.args.Subject = <<"%", "a">>
    /\ app.args.Body = <<" ", "&">>
    /\ app.out # <<>>

MaxSMSLen == 2

\* The applications of SMSData.Encode: messages of a letter and ":", the
\* empty one among them.
SMSApps ==
    [fn : {"SMSData.Encode"},
     args : [Phone : {<<"1">>, <<"+", "1", "2">>}, Message : StringsUpTo({"a", ":"}, MaxSMSLen)],
     out : {<<>>}]

\* s.Encode()
ApplySMSEncode ==
    /\ app.fn = "SMSData.Encode"
    /\ app.out = <<>>
    /\ app' = [app EXCEPT !.out = <<SMSEncode(app.args)>>]
    /\ UNCHANGED <<m, fx>>

\* C21: the SMS encoding is smsto:, the phone, ":" and the message when the
\* message is not empty, and smsto: and the phone with nothing after it when
\* the message is empty.
C21_SMSEncoding ==
    (app # <<>> /\ app.fn = "SMSData.Encode" /\ app.out # <<>>) =>
        LET s == app.args
        IN  IF s.Message = <<>>
            THEN app.out[1] = <<"s", "m", "s", "t", "o", ":">> \o s.Phone
            ELSE app.out[1] = <<"s", "m", "s", "t", "o", ":">> \o s.Phone \o <<":">> \o s.Message

\* C21: a number with no message was encoded.
C21_Witness ==
    /\ app # <<>> /\ app.fn = "SMSData.Encode"
    /\ app.args.Message = <<>>
    /\ app.out = <<<<"s", "m", "s", "t", "o", ":">> \o <<"+", "1", "2">>>>

MaxRows == 3

MaxCols == 2

\* The applications of renderBitmapToTerminal: every bitmap of at most
\* MaxRows rows of at most MaxCols modules each, TRUE for a dark module.
BitmapApps ==
    [fn : {"renderBitmapToTerminal"},
     args : UNION {[bitmap : [1..r -> [1..c -> BOOLEAN]]] : r \in 0..MaxRows, c \in 0..MaxCols},
     out : {<<>>}]

\* renderBitmapToTerminal(bitmap)
ApplyRenderBitmap ==
    /\ app.fn = "renderBitmapToTerminal"
    /\ app.out = <<>>
    /\ app' = [app EXCEPT !.out = <<renderBitmapToTerminal(app.args.bitmap)>>]
    /\ UNCHANGED <<m, fx>>

\* C22: the rendering of a bitmap of R rows and C columns has ceil(R/2)
\* lines, each of C glyphs and a colour reset; the glyph of line i and
\* column x has the black foreground code exactly when module (2i, x) is
\* dark and the black background code exactly when module (2i+1, x) is
\* dark, a module below the last row counting as light; the empty bitmap
\* renders as the empty string.
C22_TerminalRendering ==
    (app # <<>> /\ app.fn = "renderBitmapToTerminal" /\ app.out # <<>>) =>
        LET bitmap == app.args.bitmap
            text   == app.out[1]
            R      == Len(bitmap)
            C      == IF R = 0 THEN 0 ELSE Len(bitmap[1])
            lines  == (R + 1) \div 2
            width  == 6 * C + 4
            dark(y, x) == y < R /\ bitmap[y + 1][x + 1]
        IN  /\ R = 0 => text = <<>>
            /\ Len(text) = lines * width
            /\ Cardinality({p \in 1..Len(text) : text[p] = "\n"}) = lines
            /\ \A i \in 0..(lines - 1) :
                  /\ \A x \in 0..(C - 1) :
                        SubSeq(text, i * width + 6 * x + 1, i * width + 6 * x + 6)
                            = <<"ESC[", IF dark(2 * i, x) THEN "30" ELSE "97", ";",
                                IF dark(2 * i + 1, x) THEN "40" ELSE "107", "m", "U+2580">>
                  /\ SubSeq(text, i * width + 6 * C + 1, (i + 1) * width)
                        = <<"ESC[", "0", "m", "\n">>

\* C22: a bitmap of three rows whose last row has a dark module was rendered.
C22_Witness ==
    /\ app # <<>> /\ app.fn = "renderBitmapToTerminal"
    /\ Len(app.args.bitmap) = 3
    /\ Len(app.args.bitmap[1]) = 2
    /\ app.args.bitmap[3] = <<TRUE, FALSE>>
    /\ app.out # <<>>

(***************************************************************************)
(* The command line: main, handleHistory and handleRegen.  e says which    *)
(* of the operations behind a command succeed; ids is the set of ids the   *)
(* history store holds.                                                    *)
(***************************************************************************)

\* handleHistory: TRUE if it reported a failure on stderr.  It returns no
\* value to main.
handleHistory(e) == ~e.store

\* handleRegen: TRUE if it reported a failure on stderr.  It returns no value
\* to main.
handleRegen(idStr, e) ==
    IF ~Atoi(idStr).ok THEN TRUE
    ELSE IF ~e.store THEN TRUE
    ELSE IF Atoi(idStr).n \notin e.ids THEN TRUE
    ELSE IF ~e.gen THEN TRUE
    ELSE FALSE

\* main: the exit code of the process and whether a failure was reported.
main(argv, e) ==
    LET run == [code |-> IF e.run THEN 0 ELSE 1, reported |-> ~e.run]
    IN  IF Len(argv) = 0 THEN run
        ELSE CASE argv[1] \in {"--version", "-v"} -> [code |-> 0, reported |-> FALSE]
               [] argv[1] \in {"update", "--update"} ->
                    IF ~e.update THEN [code |-> 1, reported |-> TRUE]
                    ELSE [code |-> 0, reported |-> FALSE]
               [] argv[1] \in {"check-update", "--check-update"} ->
                    IF ~e.check THEN [code |-> 1, reported |-> TRUE]
                    ELSE [code |-> 0, reported |-> FALSE]
               [] argv[1] \in {"--help", "-h", "help"} -> [code |-> 0, reported |-> FALSE]
               [] argv[1] = "history" -> [code |-> 0, reported |-> handleHistory(e)]
               [] argv[1] = "regen" ->
                    IF Len(argv) < 2 THEN [code |-> 1, reported |-> TRUE]
                    ELSE [code |-> 0, reported |-> handleRegen(argv[2], e)]
               [] OTHER -> run

\* The applications of main: every command, regen with no id, with the id of
\* an entry, with an id the store does not hold and with a word; and every
\* outcome of the update, the update check, the opening of the history
\* store, the generation and the run of the wizard.
MainApps ==
    [fn : {"main"},
     args : [argv : {<<>>, <<"--version">>, <<"--help">>, <<"update">>, <<"check-update">>,
                     <<"history">>, <<"regen">>, <<"regen", <<"1">>>>, <<"regen", <<"7">>>>,
                     <<"regen", <<"x">>>>},
             e : [update : BOOLEAN, check : BOOLEAN, store : BOOLEAN, ids : {{1}},
                  gen : BOOLEAN, run : BOOLEAN]],
     out : {<<>>}]

\* The process runs to its exit.
ApplyMain ==
    /\ app.fn = "main"
    /\ app.out = <<>>
    /\ app' = [app EXCEPT !.out = <<main(app.args.argv, app.args.e)>>]
    /\ UNCHANGED <<m, fx>>

\* The operation behind the command fails, or its argument is missing or is
\* not the id of an entry.
CommandFails(argv, e) ==
    IF Len(argv) = 0 THEN ~e.run
    ELSE CASE argv[1] = "update" -> ~e.update
           [] argv[1] = "check-update" -> ~e.check
           [] argv[1] = "history" -> ~e.store
           [] argv[1] = "regen" ->
                \/ Len(argv) < 2
                \/ ~e.store
                \/ ~e.gen
                \/ argv[2] # <<"1">>
           [] OTHER -> FALSE

\* C24: every command exits with code 0 when it succeeds and with code 1
\* when its argument is wrong or its operation fails.
C24_ExitCodes ==
    (app # <<>> /\ app.fn = "main" /\ app.out # <<>>) =>
        app.out[1].code = IF CommandFails(app.args.argv, app.args.e) THEN 1 ELSE 0

(***************************************************************************)
(* The wizard run on a script of keys: Update applied to New() and then to *)
(* each model it returns, every collaborator succeeding.                   *)
(***************************************************************************)

\* The text typed one key at a time.
Typed(txt) == [i \in 1..Len(txt) |-> Runes(<<txt[i]>>)]

\* Enter on URL, the address, Enter, Enter on PNG, Enter on each colour,
\* Enter on the empty size, the file name, Enter, Enter on Confirm.
ScenarioKeys ==
    <<Named("enter")>> \o Typed(<<"h", "t", "t", "p", "s", ":", "/", "/", "e", "x", "a", "m", "p", "l", "e", ".", "c", "o", "m">>) \o <<Named("enter")>>
        \o <<Named("enter"), Named("enter"), Named("enter"), Named("enter")>>
        \o Typed(<<"q", "r", "c", "o", "d", "e">>) \o <<Named("enter"), Named("enter")>>

\* The applications of Update to the script: out holds what each key returned.
ScenarioApps == [fn : {"Model.Update"}, args : [keys : {ScenarioKeys}], out : {<<>>}]

\* The next key of the script is delivered to Update.
ApplyUpdate ==
    /\ app.fn = "Model.Update"
    /\ Len(app.out) < Len(app.args.keys)
    /\ LET mm == IF app.out = <<>> THEN New(AllSucceed) ELSE app.out[Len(app.out)].m
       IN  app' = [app EXCEPT !.out =
                      Append(@, Update(mm, app.args.keys[Len(app.out) + 1], AllSucceed))]
    /\ UNCHANGED <<m, fx>>

\* generatePNG, every call succeeding: the file it leaves.  qrc.Image(size)
\* is an image of size by size pixels, which png.Encode writes to the file
\* created at the output path.
generatePNG(c) == [path |-> c.OutputPath, format |-> "PNG", width |-> c.Size, height |-> c.Size]

C34_DefaultColoursAccepted ==
    (app # <<>> /\ app.fn = "Model.Update") =>
        \A i \in 1..Len(app.out) :
            LET c == app.out[i].m.config
            IN  app.out[i].m.step \in {StepSize, StepOutput, StepConfirm, StepComplete} =>
                    /\ c.Foreground = DefaultConfig.Foreground
                    /\ c.Background = DefaultConfig.Background
                    /\ c.Foreground # c.Background

(***************************************************************************)
(* The history store: Add on a store that started empty.  An entry is told *)
(* apart by its Content; the nth call adds the content n.                  *)
(***************************************************************************)

maxEntries == 50

MaxAdds == 52

\* The largest ID in the store, 0 when it is empty.
maxID(entries) ==
    IF entries = <<>> THEN 0
    ELSE CHOOSE x \in {entries[i].ID : i \in 1..Len(entries)} :
             \A i \in 1..Len(entries) : entries[i].ID <= x

\* A variant of Add that trims the front of the slice: the newest entries go.
AddTrimsNewest(entries, entry) ==
    LET all == <<[entry EXCEPT !.ID = maxID(entries) + 1]>> \o entries
    IN  IF Len(all) > maxEntries THEN SubSeq(all, Len(all) - maxEntries + 1, Len(all)) ELSE all

\* A variant of Add that numbers the entry by the length of the store.
AddNumbersByLength(entries, entry) ==
    LET all == <<[entry EXCEPT !.ID = Len(entries) + 1]>> \o entries
    IN  IF Len(all) > maxEntries THEN SubSeq(all, 1, maxEntries) ELSE all

\* Store.Add: the entry gets the next ID and goes to the front; the slice is
\* cut to its first maxEntries.  The entries it leaves in the store (save()
\* runs after them and gives the error Add returns).
Add(entries, entry) ==
    LET all == <<[entry EXCEPT !.ID = maxID(entries) + 1]>> \o entries
    IN  IF Len(all) > maxEntries THEN SubSeq(all, 1, maxEntries) ELSE all

\* Store.Get: the first entry with the ID, or the error.
Get(entries, id) ==
    IF \E i \in 1..Len(entries) : entries[i].ID = id
    THEN [entry |-> <<entries[CHOOSE i \in 1..Len(entries) :
                                 /\ entries[i].ID = id
                                 /\ \A j \in 1..(i - 1) : entries[j].ID # id]>>,
          err |-> NoError]
    ELSE [entry |-> <<>>, err |-> Errorf("entry #%d not found", id)]

\* Store.Clear: the entries it leaves in the store.
Clear(entries) == <<>>

MaxClears == 1

\* The store as NewStore leaves it without a history file, and no call made:
\* n counts the calls of Add since the store was last empty, clears the
\* calls of Clear.
StoreApps == [fn : {"Store.Add"}, args : {<<>>},
              out : {[entries |-> <<>>, n |-> 0, saved |-> TRUE, clears |-> 0]}]

\* One more call of Add; save() succeeds or fails.
ApplyAdd ==
    /\ app.fn = "Store.Add"
    /\ app.out.n < MaxAdds
    /\ \E saved \in BOOLEAN :
          app' = [app EXCEPT !.out =
                     [entries |-> Add(app.out.entries, [ID |-> 0, Content |-> app.out.n + 1]),
                      n |-> app.out.n + 1, saved |-> saved, clears |-> app.out.clears]]
    /\ UNCHANGED <<m, fx>>

\* A call of Clear; save() succeeds or fails.
ApplyClear ==
    /\ app.fn = "Store.Add"
    /\ app.out.clears < MaxClears
    /\ \E saved \in BOOLEAN :
          app' = [app EXCEPT !.out =
                     [entries |-> Clear(app.out.entries), n |-> 0, saved |-> saved,
                      clears |-> app.out.clears + 1]]
    /\ UNCHANGED <<m, fx>>

\* C38: Add gives the new entry the ID 1 + the largest ID of the store, 1
\* in an empty store; after any calls of Add and Clear on a store that
\* started empty the IDs fall strictly from the first entry to the last,
\* hence are pairwise distinct, also once the store is cut to 50 entries;
\* Get finds the one entry with an ID that is in the store and fails for an
\* ID that is not.
C38_DistinctIDs ==
    (app # <<>> /\ app.fn = "Store.Add") =>
        LET es      == app.out.entries
            ids     == {es[i].ID : i \in 1..Len(es)}
            largest == IF es = <<>> THEN 0 ELSE CHOOSE x \in ids : \A y \in ids : y <= x
            added   == Add(es, [ID |-> 0, Content |-> 0])
        IN  /\ added[1].ID = 1 + largest
            /\ \A i \in 2..Len(added) : added[i] = es[i - 1]
            /\ \A i, j \in 1..Len(es) : i < j => es[i].ID > es[j].ID
            /\ \A id \in 0..(MaxAdds + 1) :
                  LET holders == {i \in 1..Len(es) : es[i].ID = id}
                  IN  /\ Cardinality(holders) <= 1
                      /\ holders # {} => Get(es, id) = [entry |-> <<es[CHOOSE i \in holders : TRUE]>>,
                                                        err |-> NoError]
                      /\ holders = {} => (Get(es, id).entry = <<>> /\ Get(es, id).err # NoError)

\* C38: the store was cleared and then filled beyond 50 entries, so that
\* the entry with the ID 1 was dropped.
C38_Witness ==
    /\ app # <<>> /\ app.fn = "Store.Add"
    /\ app.out.clears = 1
    /\ Len(app.out.entries) = 50
    /\ app.out.entries[1].ID = 51
    /\ app.out.entries[50].ID = 2

\* C26: after n calls of Add on a store that started empty the store holds
\* min(n, 50) entries, the ith of them the entry of call n - i + 1: the
\* latest ones, newest first, the oldest dropped.
C26_NewestFifty ==
    (app # <<>> /\ app.fn = "Store.Add") =>
        LET n    == app.out.n
            kept == IF n < 50 THEN n ELSE 50
        IN  /\ Len(app.out.entries) = kept
            /\ \A i \in 1..kept : app.out.entries[i].Content = n - i + 1

\* C26: more than 50 calls were made, so that entries were dropped.
C26_Witness ==
    /\ app # <<>> /\ app.fn = "Store.Add"
    /\ app.out.n > 50
    /\ Len(app.out.entries) = 50

(***************************************************************************)
(* The file picker on its own, browsing: keys delivered to Update and      *)
(* Refresh, from the working directory or from the long directory.         *)
(***************************************************************************)

PickerKeys == {Named(s) : s \in {"up", "down", "enter", "backspace"}}
                  \cup {Runes(<<c>>) : c \in {"k", "j", "~"}}

ReadDirOutcomes == {[AllSucceed EXCEPT !.readDir = ok] : ok \in BOOLEAN}

PickerApps ==
    [fn : {"FilePicker.Update"}, args : {<<>>},
     out : {NewFilePicker(AllSucceed),
            navigateTo(NewFilePicker(AllSucceed), LongDir, AllSucceed)}]

\* A key goes to the picker.
ApplyPickerUpdate ==
    /\ app.fn = "FilePicker.Update"
    /\ \E k \in PickerKeys : \E e \in ReadDirOutcomes :
          app' = [app EXCEPT !.out = FilePickerUpdate(@, k, e)]
    /\ UNCHANGED <<m, fx>>

\* The picker is refreshed, as it is each time the browser is opened.
ApplyRefresh ==
    /\ app.fn = "FilePicker.Update"
    /\ \E e \in ReadDirOutcomes : app' = [app EXCEPT !.out = loadEntries(@, e)]
    /\ UNCHANGED <<m, fx>>

\* The cursor is inside the window of 12 rows that starts at the offset,
\* and inside the list when there is one.
CursorInWindow(fp) ==
    /\ 0 <= fp.offset /\ fp.offset <= fp.cursor /\ fp.cursor < fp.offset + 12
    /\ fp.entries # <<>> => (0 <= fp.cursor /\ fp.cursor < Len(fp.entries))

Distance(a, b) == IF a < b THEN b - a ELSE a - b

\* C27: in every state of the picker 0 <= offset <= cursor < offset + 12,
\* and 0 <= cursor < len(entries) when the list is not empty; up and down
\* (and k, j) move the cursor by at most one and leave it inside a list
\* that is not empty; every directory load that succeeds, by a key or by a
\* refresh, leaves cursor and offset at 0.
C27_CursorAndOffset ==
    (app # <<>> /\ app.fn = "FilePicker.Update") =>
        LET fp == app.out
        IN  /\ CursorInWindow(fp)
            /\ \A e \in ReadDirOutcomes :
                  /\ \A k \in PickerKeys :
                        LET n == FilePickerUpdate(fp, k, e)
                        IN  /\ k.s \in {"up", "down", "k", "j"} =>
                                  /\ Distance(n.cursor, fp.cursor) <= 1
                                  /\ n.entries = fp.entries /\ n.dir = fp.dir
                                  /\ CursorInWindow(n)
                            /\ (k.s \in {"enter", "backspace", "~"} /\ n.dir # fp.dir
                                    /\ n.err = NoError) =>
                                  (n.cursor = 0 /\ n.offset = 0)
                  /\ loadEntries(fp, e).err = NoError =>
                        (loadEntries(fp, e).cursor = 0 /\ loadEntries(fp, e).offset = 0)

\* C27: the list was scrolled, the cursor on the last row of the window.
C27_Witness ==
    /\ app # <<>> /\ app.fn = "FilePicker.Update"
    /\ app.out.offset > 0
    /\ app.out.cursor = app.out.offset + 11
    /\ app.out.cursor = Len(app.out.entries) - 1

(***************************************************************************)
(* The template form on its own: keys delivered to TemplateWizard.Update   *)
(* of a WiFi form and of an SMS form, until the form is confirmed.         *)
(***************************************************************************)

MaxFormText == 1

FormKeys == Keys({"tab", "shift+tab", "up", "down", "left", "right", "enter", "backspace", " "})
                \cup {Runes(<<"x">>)}

\* The values of the text fields of the form.
TextValues(tw) == [f \in TextFieldNames |-> tw[f].value]

FormApps ==
    [fn : {"TemplateWizard.Update"}, args : {<<>>},
     out : {NewTemplateWizard(ContentWiFi), NewTemplateWizard(ContentSMS)}]

\* A key goes to the form; the user types at most MaxFormText characters
\* into a field.
ApplyTemplateWizardUpdate ==
    /\ app.fn = "TemplateWizard.Update"
    /\ ~app.out.confirmed
    /\ \E k \in FormKeys :
          LET n == TemplateWizardUpdate(app.out, k)
          IN  /\ \A f \in TextFieldNames : Len(n[f].value) <= MaxFormText
              /\ app' = [app EXCEPT !.out = n]
    /\ UNCHANGED <<m, fx>>

\* Every key tried on a form: the control keys, a letter and a paste.
AnyFormKey == ControlKeys \cup {Runes(<<"x">>), Runes(<<"x", " ">>)}

\* The keys that move the focus or submit the form.
FormNavigation == {"tab", "down", "shift+tab", "up", "enter"}

\* C29: while the encryption selector or the hidden toggle of a WiFi form
\* is focused no key changes the value of a text field; on the selector
\* left and right move the encryption index by one within 0..2 and Space
\* steps it modulo 3, the hidden flag staying; on the toggle left, right
\* and Space flip the hidden flag, the index staying; a navigation key
\* changes neither, and every other key leaves the form as it is.  While a
\* text field is focused, left, right and Space change neither the index
\* nor the flag.
C29_ToggleFields ==
    (app # <<>> /\ app.fn = "TemplateWizard.Update") =>
        LET tw == app.out
        IN  \A k \in AnyFormKey :
               LET n == TemplateWizardUpdate(tw, k)
                   i == tw.wifiEncIndex
               IN  IF tw.contentType = ContentWiFi /\ tw.focusIndex \in {2, 3}
                   THEN /\ TextValues(n) = TextValues(tw)
                        /\ n.wifiEncIndex \in 0..2
                        /\ CASE k.s \in {"left", "right", " "} /\ tw.focusIndex = 2 ->
                                  /\ n.wifiEncIndex =
                                        CASE k.s = "left"  -> IF i > 0 THEN i - 1 ELSE 0
                                          [] k.s = "right" -> IF i < 2 THEN i + 1 ELSE 2
                                          [] k.s = " "     -> (i + 1) % 3
                                  /\ n = [tw EXCEPT !.wifiEncIndex = n.wifiEncIndex]
                             [] k.s \in {"left", "right", " "} /\ tw.focusIndex = 3 ->
                                  n = [tw EXCEPT !.wifiHidden = ~tw.wifiHidden]
                             [] k.s \in FormNavigation ->
                                  n.wifiEncIndex = i /\ n.wifiHidden = tw.wifiHidden
                             [] OTHER -> n = tw
                   ELSE k.s \in {"left", "right", " "} =>
                            (n.wifiEncIndex = i /\ n.wifiHidden = tw.wifiHidden)

\* C29: the hidden toggle is focused, the network hidden, the last
\* encryption chosen and a name typed.
C29_Witness ==
    /\ app # <<>> /\ app.fn = "TemplateWizard.Update"
    /\ app.out.focusIndex = 3
    /\ app.out.wifiHidden
    /\ app.out.wifiEncIndex = 2
    /\ app.out.wifiSSID.value = <<"x">>

(***************************************************************************)
(* Generate applied to configurations on both sides of every rule of       *)
(* Validate, the file system and the encoder succeeding or failing.        *)
(***************************************************************************)

GenerateConfigs ==
    [Content    : {<<>>, <<"q">>},
     Format     : {FormatPNG, FormatSVG, <<"g", "i", "f">>, <<>>},
     Size       : {-1, 0, 63, 64, 256, 4096, 4097},
     Foreground : {DefaultConfig.Foreground},
     Background : {DefaultConfig.Background},
     OutputPath : {<<>>, <<"q", ".", "p", "n", "g">>, <<"/", "w", "/", "q", ".", "p", "n", "g">>}]

GenerateApps ==
    [fn : {"Generator.Generate"},
     args : [c : GenerateConfigs, gen : GenOutcomes],
     out : {<<>>}]

ApplyGenerate ==
    /\ app.fn = "Generator.Generate"
    /\ app.out = <<>>
    /\ app' = [app EXCEPT !.out =
                  <<Generate(app.args.c, [AllSucceed EXCEPT !.gen = app.args.gen])>>]
    /\ UNCHANGED <<m, fx>>

\* C37: Generate applied to a configuration with empty content, a size
\* below 64 or above 4096, a format other than png and svg, or an empty
\* output path returns an error and has called neither os.MkdirAll nor
\* os.Create nor os.WriteFile; a configuration with none of these faults
\* is not turned down by the validation.
C37_ValidationBeforeEffects ==
    (app # <<>> /\ app.fn = "Generator.Generate" /\ app.out # <<>>) =>
        LET c       == app.args.c
            invalid == \/ c.Content = <<>>
                       \/ c.Size < 64 \/ c.Size > 4096
                       \/ c.Format \notin {<<"p", "n", "g">>, <<"s", "v", "g">>}
                       \/ c.OutputPath = <<>>
            r       == app.out[1]
        IN  /\ invalid => (r.err # NoError /\ r.fx = <<>>)
            /\ (~invalid /\ app.args.gen = "ok") => (r.err = NoError /\ r.fx # <<>>)

\* C37: Generate turned down a configuration whose only fault is its size,
\* the output directory being one that could not have been made.
C37_Witness ==
    /\ app # <<>> /\ app.fn = "Generator.Generate" /\ app.out # <<>>
    /\ app.args.c.Size = 4097 /\ app.args.c.Content # <<>>
    /\ app.args.c.Format = FormatPNG /\ app.args.c.OutputPath = <<"/", "w", "/", "q", ".", "p", "n", "g">>
    /\ app.args.gen = "mkdir"
    /\ app.out[1].err # NoError /\ app.out[1].fx = <<>>

(***************************************************************************)
(* replaceBinary.  A file is known by what it holds: the executable is     *)
(* "previous", "new" or "absent", the temp file "absent", "empty",         *)
(* "partial" or "new", the file execPath + ".old" "absent", "stale" or     *)
(* "previous".  o says which calls of the operating system succeed; a      *)
(* call that fails leaves the files as they were, but for a write, which   *)
(* leaves part of the content.                                             *)
(***************************************************************************)
\* The deferred function: the temp file is removed when err is set, and the
\* result of os.Remove is dropped.
removeTempOnError(r, o) ==
    IF r.err # NoError /\ o.removeTemp THEN [r EXCEPT !.tmp = "absent"] ELSE r

\* The Windows branch, entered with the temp file written and executable.
replaceOnWindows(fs, o) ==
    LET aside0 == IF o.removeOld THEN "absent" ELSE fs.aside
    IN  IF ~o.moveAside
        THEN [err |-> Errorf("cannot move old binary: %w", "rename"),
              exec |-> fs.exec, tmp |-> "new", aside |-> aside0]
        ELSE IF ~o.moveIn
        THEN [err |-> Errorf("cannot move new binary into place: %w", "rename"),
              exec |-> IF o.restore THEN fs.exec ELSE "absent",
              tmp |-> "new",
              aside |-> IF o.restore THEN "absent" ELSE fs.exec]
        ELSE [err |-> NoError, exec |-> "new", tmp |-> "absent",
              aside |-> IF o.removeAside THEN "absent" ELSE fs.exec]

\* The other branch: one rename of the temp file over the executable.
replaceOnUnix(fs, o) ==
    IF ~o.moveIn
    THEN [err |-> Errorf("cannot replace binary: %w", "rename"),
          exec |-> fs.exec, tmp |-> "new", aside |-> fs.aside]
    ELSE [err |-> NoError, exec |-> "new", tmp |-> "absent", aside |-> fs.aside]

\* replaceBinary: the error it returns and the files it leaves.
replaceBinary(goos, fs, o) ==
    IF o.path = "executable"
    THEN [err |-> Errorf("cannot determine executable path: %w", "executable"),
          exec |-> fs.exec, tmp |-> "absent", aside |-> fs.aside]
    ELSE IF o.path = "symlinks"
    THEN [err |-> Errorf("cannot resolve executable path: %w", "symlinks"),
          exec |-> fs.exec, tmp |-> "absent", aside |-> fs.aside]
    ELSE IF ~o.createTemp
    THEN [err |-> Errorf("cannot create temp file (do you have write permission to %s?): %w", "createtemp"),
          exec |-> fs.exec, tmp |-> "absent", aside |-> fs.aside]
    ELSE removeTempOnError(
           IF ~o.write
           THEN [err |-> <<"write">>, exec |-> fs.exec, tmp |-> "partial", aside |-> fs.aside]
           ELSE IF ~o.close
           THEN [err |-> <<"close">>, exec |-> fs.exec, tmp |-> "new", aside |-> fs.aside]
           ELSE IF ~o.chmod
           THEN [err |-> <<"chmod">>, exec |-> fs.exec, tmp |-> "new", aside |-> fs.aside]
           ELSE IF goos = "windows" THEN replaceOnWindows(fs, o)
           ELSE replaceOnUnix(fs, o), o)

\* The calls of the operating system replaceBinary makes, each succeeding or
\* failing.
ReplaceOutcomes ==
    [path : {"ok", "executable", "symlinks"}, createTemp : BOOLEAN, write : BOOLEAN,
     close : BOOLEAN, chmod : BOOLEAN, removeOld : BOOLEAN, moveAside : BOOLEAN,
     moveIn : BOOLEAN, restore : BOOLEAN, removeAside : BOOLEAN, removeTemp : BOOLEAN]

\* replaceBinary on either system, with or without a file left at
\* execPath + ".old" by an earlier update.
ReplaceApps ==
    [fn : {"replaceBinary"},
     args : [goos : {"windows", "linux"},
             fs : [exec : {"previous"}, tmp : {"absent"}, aside : {"absent", "stale"}],
             o : ReplaceOutcomes],
     out : {<<>>}]

ApplyReplaceBinary ==
    /\ app.fn = "replaceBinary"
    /\ app.out = <<>>
    /\ app' = [app EXCEPT !.out = <<replaceBinary(app.args.goos, app.args.fs, app.args.o)>>]
    /\ UNCHANGED <<m, fx>>

\* C39: when replaceBinary fails after it created the temp file, the temp
\* file is gone and the executable still holds the previous binary; when it
\* succeeds, the executable holds the new binary and no temp file is left;
\* on Windows as on the other systems.
C39_FailureSafe ==
    (app # <<>> /\ app.fn = "replaceBinary" /\ app.out # <<>>) =>
        LET r == app.out[1]
            created == app.args.o.path = "ok" /\ app.args.o.createTemp
        IN  /\ (created /\ r.err # NoError) => (r.tmp = "absent" /\ r.exec = "previous")
            /\ r.err = NoError => (r.exec = "new" /\ r.tmp = "absent")

\* C39, with the two calls whose result replaceBinary drops succeeding: the
\* removal of the temp file and the move of the old binary back.
C39_SafeWhenCleanupSucceeds ==
    (/\ app # <<>> /\ app.fn = "replaceBinary" /\ app.out # <<>>
     /\ app.args.o.removeTemp /\ app.args.o.restore) =>
        LET r == app.out[1]
            created == app.args.o.path = "ok" /\ app.args.o.createTemp
        IN  /\ (created /\ r.err # NoError) => (r.tmp = "absent" /\ r.exec = "previous")
            /\ r.err = NoError => (r.exec = "new" /\ r.tmp = "absent")

\* C39: on Windows the new binary could not be moved in and the old one
\* could not be moved back: the executable path holds nothing.
C39_ExecutableLost ==
    /\ app # <<>> /\ app.fn = "replaceBinary" /\ app.out # <<>>
    /\ app.args.goos = "windows"
    /\ app.out[1].err # NoError
    /\ app.out[1].exec = "absent"
    /\ app.out[1].aside = "previous"
    /\ app.out[1].tmp = "absent"

(***************************************************************************)
(* The specification of the functions applied on their own.                *)
(***************************************************************************)

Applications == PathApps \cup HexApps \cup ListingApps \cup WiFiApps
        \cup VCardApps \cup EmailApps \cup SMSApps \cup BitmapApps \cup MainApps \cup ScenarioApps \cup StoreApps \cup PickerApps \cup FormApps \cup GenerateApps \cup ReplaceApps

InitApply ==
    /\ m = <<>>
    /\ fx = <<>>
    /\ app \in Applications

NextApply ==
    \/ ApplySetOutputPath
    \/ ApplyParseHexColor
    \/ ApplyColorToHex
    \/ ApplyLoadEntries
    \/ ApplyWiFiEncode
    \/ ApplyVCardEncode
    \/ ApplyTryEncodeVCard
    \/ ApplyEmailEncode
    \/ ApplySMSEncode
    \/ ApplyRenderBitmap
    \/ ApplyMain
    \/ ApplyUpdate
    \/ ApplyAdd
    \/ ApplyPickerUpdate
    \/ ApplyRefresh
    \/ ApplyTemplateWizardUpdate
    \/ ApplyGenerate
    \/ ApplyClear
    \/ ApplyReplaceBinary

SpecApply == InitApply /\ [][NextApply]_vars

====
